---- MODULE Spec2Model ----
(***************************************************************************)
(* SyncEdge task-management server (backend/server.js, listed in README.md) *)
(* The task / group / audit / notification pipeline as a state machine.     *)
(* Every await of a handler that touches a store is one step, so requests   *)
(* interleave exactly where the event loop lets them.                       *)
(***************************************************************************)
EXTENDS Integers, Sequences, FiniteSets, TLC

(* ------------------------------------------------------------------ *)
(* Bounds of the model                                                  *)
(* ------------------------------------------------------------------ *)
MaxTasks == 1
MaxGroups == 1
MaxOps == 3
MaxOpsConc == 3
MaxFaults == 1
\* the number of fields a PUT /api/tasks/:id body carries at most
MaxEdit == 1
\* the clock stops after this many ticks
MaxTime == 3
\* the requests of the user-account and of the inbox specification
MaxOpsUsers == 3
MaxOpsInbox == 4
\* the requests of the task-form specification
MaxOpsForm == 3
\* the requests of the group-deletion specification
MaxOpsCascade == 4
\* the requests of the password-reset specification
MaxOpsReset == 4

(* ------------------------------------------------------------------ *)
(* Values                                                               *)
(* ------------------------------------------------------------------ *)
\* user ids (ObjectId strings of the users collection)
Users == {"u1", "u2", "u3", "u4"}
\* the users that hold a session in this model (req.userId)
Callers == {"u2", "u3"}
\* the ids new User(...) gets at signup, in the order they are handed out
SignupIds == <<"u5", "u6">>
\* null / undefined for a string-valued field
None == "none"
\* a string that is not the hex form of an ObjectId
BadId == "bob"
\* absent group reference
NoGroup == 0
\* a key the request body does not carry (undefined)
Absent == "absent"

\* JavaScript values of the status and completed keys: a number, a numeric string
\* (the <Select> of the form yields the keys of statusColumns, which are strings),
\* a boolean, or undefined
JNum(n) == <<"number", n>>
JStr(n) == <<"string", n>>
JBool(b) == <<"boolean", IF b THEN 1 ELSE 0>>
JUndef == <<"undefined", 0>>

\* Mongoose casts: a Number path takes a number or a numeric string, a Boolean path
\* a boolean
CastNumber(v) == v[2]
CastBoolean(v) == v[2] = 1

\* taskSchema defaults
DefaultStatus == 1
DefaultCompleted == FALSE

\* password-reset tokens: the n-th string crypto.randomBytes(32).toString('hex')
\* returned (two calls never return the same string), a string it never returned, and
\* the unset resetToken of a user
ResetToken(n) == <<"reset", n>>
Guess == <<"guess", 0>>
NoToken == <<"unset", 0>>

\* the unset resetTokenExpiration of a user
NoDate == 0 - 1

\* bcrypt.hash(password, salt) and bcrypt.compare(password, hash)
Hash(password) == <<"bcrypt", password>>
Compare(password, hash) == hash = Hash(password)

Visibilities == {"private", "group", "public"}
TaskIds == 1..MaxTasks
GroupIds == 1..MaxGroups
\* the handlers that can be in flight at once
Slots == {1, 2}

\* The request inputs the model draws from.  Requests handled one at a time draw
\* from Wide; requests that overlap draw from Narrow.
Wide ==
    [callers |-> Callers, titles |-> {"A", "B"}, visibilities |-> Visibilities,
     groups |-> {NoGroup} \cup GroupIds, assigned_by |-> {None, "u4"},
     assigned_to |-> {None, "u3", BadId},
     members |-> {{"u1", "u4"}, {"u2", "u3"}}, names |-> {"G", "H"},
     statuses |-> {JUndef}, completed |-> {JUndef}]

Narrow ==
    [callers |-> {"u2"}, titles |-> {"A", "B"}, visibilities |-> {"private", "group"},
     groups |-> {NoGroup} \cup GroupIds, assigned_by |-> {None},
     assigned_to |-> {None, "u3"},
     members |-> {{"u1", "u4"}}, names |-> {"G"},
     statuses |-> {JUndef}, completed |-> {JUndef}]

VARIABLES users, tasks, nextTaskId, groups, nextGroupId, audits, notifications,
          req, opsLeft, faults, now, tokens, issued, taskData, editingTask

vars == <<users, tasks, nextTaskId, groups, nextGroupId, audits, notifications,
          req, opsLeft, faults, now, tokens, issued, taskData, editingTask>>

\* the server's clock, the session tokens it has issued, and the times at which it
\* generated its password-reset tokens (the n-th token was generated at issued[n])
sessionVars == <<now, tokens, issued>>

\* the state of the client's task form (Task.js)
clientVars == <<taskData, editingTask>>

(* ------------------------------------------------------------------ *)
(* Schemas                                                              *)
(* ------------------------------------------------------------------ *)
\* userSchema: name, username, password (the bcrypt hash), and resetToken and
\* resetTokenExpiration, unset in a new document
UserDoc(n, un, pw) ==
    [name |-> n, username |-> un, password |-> pw, resetToken |-> NoToken,
     resetTokenExpiration |-> NoDate]

\* taskSchema, the fields the pipeline reads
TaskDoc(id, title, vis, grp, owner, aby, ato, status, completed) ==
    [id |-> id, title |-> title, visibility |-> vis, group |-> grp, owner |-> owner,
     assigned_by |-> aby, assigned_to |-> ato, status |-> status,
     completed |-> completed]

\* groupSchema
GroupDoc(id, name, owner, members) ==
    [id |-> id, name |-> name, owner |-> owner, members |-> members]

\* auditSchema (timestamp is the position in the collection)
AuditDoc(taskId, action, changedBy, changes) ==
    [taskId |-> taskId, action |-> action, changedBy |-> changedBy, changes |-> changes]

\* notificationSchema: read defaults to false
NotificationDoc(userId, taskId, message, type) ==
    [userId |-> userId, taskId |-> taskId, message |-> message, type |-> type,
     read |-> FALSE]

\* A request being handled: the handler's position (pc) and its local variables.
\*   doc        savedTask / updatedTask / taskToDelete / the loaded group
\*   body       the group fields a PUT /api/groups/:id is about to save
\*   changes    the changes argument of the coming recordAudit call
\*   recipients usersToNotify
\*   found      the group ids GET /api/tasks found, then the task ids it returns
\*   logs       the audit records GET /api/tasks/:id/audit returns
\*   cookie     the jwt cookie the request carried (user and notification routes), or
\*              the token a login or signup answered with
\*   at         the time authMiddleware saw the cookie
\*   token      the reset token in the body of POST /api/users/reset-password
\*   status     the HTTP status sent (0: none yet)
\* The other fields record what happened to the request; no handler reads them:
\*   before     the task as stored just before PUT /api/tasks/:id wrote it (for
\*              PUT /api/notifications/:id/read, the notification)
\*   audit      the audit record the request wrote
\*   batch      the notification documents the request inserted
\*   auditFailed, storeFailed, resolveFailed, notifyFailed: the audit save, the task
\*   store, getUsersToNotify, sendNotifications threw
NoDoc == [id |-> 0]

Idle ==
    [kind |-> "idle", pc |-> "idle", caller |-> None, id |-> 0, doc |-> NoDoc,
     body |-> NoDoc, changes |-> NoDoc, recipients |-> <<>>, status |-> 0,
     found |-> {}, before |-> NoDoc, audit |-> NoDoc, auditFailed |-> FALSE,
     storeFailed |-> FALSE, resolveFailed |-> FALSE, notifyFailed |-> FALSE,
     batch |-> <<>>, logs |-> <<>>,
     cookie |-> [kind |-> "none", userId |-> None, iat |-> 0, exp |-> 0 - 1], at |-> 0,
     token |-> NoToken]

\* the slot holds no running handler
Free(s) == req[s].pc \in {"idle", "done"}

\* a new request is handled in the first slot that is free
Accepts(s) == Free(s) /\ \A t \in Slots : t < s => ~Free(t)

\* res.status(code) ends the request; the handler's locals go away
Respond(r, code) ==
    [r EXCEPT !.pc = "done", !.status = code, !.changes = NoDoc, !.body = NoDoc,
              !.recipients = <<>>]

(* ------------------------------------------------------------------ *)
(* Helpers                                                              *)
(* ------------------------------------------------------------------ *)
\* the set of elements of a sequence
Range(q) == {q[i] : i \in 1..Len(q)}

\* JavaScript truthiness of a string-or-null field
Truthy(v) == v # None

\* the string is the hex form of an ObjectId
IsObjectId(v) == v \in Users \cup Range(SignupIds)

\* the elements of a finite set in a fixed order (the order of a stored array)
RECURSIVE SetToSeq(_)
SetToSeq(S) ==
    IF S = {} THEN <<>>
    ELSE LET x == CHOOSE y \in S : TRUE IN <<x>> \o SetToSeq(S \ {x})

\* Model.findById(id) on a collection held as a function from ids
Exists(coll, id) == id \in DOMAIN coll

\* a collection without the document id
Without(coll, id) == [i \in DOMAIN coll \ {id} |-> coll[i]]

\* a collection with document id (re)written
With(coll, id, doc) == [i \in DOMAIN coll \cup {id} |-> IF i = id THEN doc ELSE coll[i]]

(* ------------------------------------------------------------------ *)
(* Visibility resolver: GET /api/tasks                                  *)
(* ------------------------------------------------------------------ *)
\* (a resolver that also counts the groups the user owns)
GroupsOfMember_orOwner(grps, userId) ==
    {g \in DOMAIN grps : userId \in grps[g].members \/ grps[g].owner = userId}

\* Group.find({ members: userId }).distinct('_id')
GroupsOfMember(grps, userId) == {g \in DOMAIN grps : userId \in grps[g].members}

\* (a filter whose group clause forgets the visibility)
TaskFilter_anyVisibility(t, groupIds, userId) ==
    \/ t.owner = userId
    \/ t.assigned_by = userId
    \/ t.assigned_to = userId
    \/ t.visibility = "public"
    \/ t.group \in groupIds

\* (a filter without the clause for public tasks)
TaskFilter_noPublic(t, groupIds, userId) ==
    \/ t.owner = userId
    \/ t.assigned_by = userId
    \/ t.assigned_to = userId
    \/ t.visibility = "group" /\ t.group \in groupIds

\* the $or filter of Task.find, groupIds being the value of the $in operand
TaskFilter(t, groupIds, userId) ==
    \/ t.owner = userId
    \/ t.assigned_by = userId
    \/ t.assigned_to = userId
    \/ t.visibility = "public"
    \/ t.visibility = "group" /\ t.group \in groupIds

\* Task.find(filter): the ids of the tasks found
FindTasks(tsks, groupIds, userId) ==
    {i \in DOMAIN tsks : TaskFilter(tsks[i], groupIds, userId)}

(* ------------------------------------------------------------------ *)
(* Audit recorder                                                       *)
(* ------------------------------------------------------------------ *)
\* (a recorder that drops the changes argument: the parameter's default {})
recordAudit_defaultChanges(log, taskId, action, changedBy, changes, saved) ==
    IF saved THEN Append(log, AuditDoc(taskId, action, changedBy, NoDoc)) ELSE log

\* recordAudit: auditLog.save() appends the record, or throws (saved = FALSE)
recordAudit(log, taskId, action, changedBy, changes, saved) ==
    IF saved THEN Append(log, AuditDoc(taskId, action, changedBy, changes)) ELSE log

\* where the calling handler goes on after `await recordAudit(...)`: recordAudit
\* catches the error of a failed save, so the handler continues either way
AfterAudit(kind, saved) == IF kind = "deleteTask" THEN "delete" ELSE "resolve"

\* the changes object PUT /api/tasks/:id computes from oldTask and updatedTask
UpdateChanges(oldTask, updatedTask) ==
    [title |-> IF oldTask.title # updatedTask.title THEN updatedTask.title ELSE None,
     group |-> IF oldTask.group # updatedTask.group THEN updatedTask.group ELSE NoGroup,
     hasTitle |-> oldTask.title # updatedTask.title,
     hasGroup |-> oldTask.group # updatedTask.group]

\* the snapshot DELETE /api/tasks/:id passes to recordAudit
DeleteSnapshot(t) ==
    [title |-> t.title, visibility |-> t.visibility, completed |-> t.completed,
     status |-> t.status, group |-> t.group, owner |-> t.owner,
     assigned_by |-> t.assigned_by, assigned_to |-> t.assigned_to]

(* ------------------------------------------------------------------ *)
(* Notification dispatcher                                              *)
(* ------------------------------------------------------------------ *)
\* Set.prototype.add on a Set of ObjectId objects: SameValueZero on objects is
\* identity of reference, so an element is kept out only by the very same object.
\* An element is [ref |-> the object, id |-> the id it holds].
SetAdd(set, e) ==
    IF \E i \in 1..Len(set) : set[i].ref = e.ref THEN set ELSE Append(set, e)

\* (a dispatcher that forgets the members of the group)
AddMembers_none(set, members) == set

RECURSIVE AddMembers(_, _)
AddMembers(set, members) ==
    IF members = <<>> THEN set
    ELSE AddMembers(SetAdd(set, [ref |-> <<"member", Head(members)>>, id |-> Head(members)]),
                    Tail(members))

\* (a dispatcher that leaves the owner out)
getUsersToNotify_noOwner(task, grps) ==
    LET s1 == IF Truthy(task.assigned_to)
              THEN SetAdd(<<>>, [ref |-> <<"new ObjectId">>, id |-> task.assigned_to])
              ELSE <<>>
        s3 == IF task.visibility = "group" /\ task.group # NoGroup
              THEN AddMembers(s1, SetToSeq(grps[task.group].members))
              ELSE s1
        threw == \/ Truthy(task.assigned_to) /\ ~IsObjectId(task.assigned_to)
                 \/ task.visibility = "group" /\ task.group # NoGroup
                    /\ ~Exists(grps, task.group)
    IN  IF threw THEN [threw |-> TRUE, users |-> <<>>]
        ELSE [threw |-> FALSE, users |-> [i \in 1..Len(s3) |-> s3[i].id]]

\* getUsersToNotify(task): [threw, users]; every ObjectId below is an object of its own:
\* the one built from assigned_to, task.owner, and each populated member's _id
getUsersToNotify(task, grps) ==
    LET s0 == <<>>
        s1 == IF Truthy(task.assigned_to)
              THEN SetAdd(s0, [ref |-> <<"new ObjectId">>, id |-> task.assigned_to])
              ELSE s0
        s2 == IF Truthy(task.owner) /\ Truthy(task.assigned_to)
                 /\ task.owner # task.assigned_to
              THEN SetAdd(s1, [ref |-> <<"task.owner">>, id |-> task.owner])
              ELSE s1
        s3 == IF task.visibility = "group" /\ task.group # NoGroup
              THEN AddMembers(s2, SetToSeq(grps[task.group].members))
              ELSE s2
        threw == \/ Truthy(task.assigned_to) /\ ~IsObjectId(task.assigned_to)
                 \/ task.visibility = "group" /\ task.group # NoGroup
                    /\ ~Exists(grps, task.group)
    IN  IF threw THEN [threw |-> TRUE, users |-> <<>>]
        ELSE [threw |-> FALSE, users |-> [i \in 1..Len(s3) |-> s3[i].id]]

\* the message sendNotifications builds
Message(usrs, task, type, actorId) ==
    LET actorName == IF Exists(usrs, actorId) THEN usrs[actorId].name ELSE "Someone"
        taskTitle == IF task.title # "" /\ task.title # None THEN task.title ELSE "a task"
        assigneeName == IF type = "assignment"
                        THEN IF Exists(usrs, task.assigned_to)
                             THEN usrs[task.assigned_to].name ELSE "someone"
                        ELSE ""
    IN  <<actorName, type, taskTitle, assigneeName>>

\* User.findById(task.assigned_to) throws a CastError on a string that is no ObjectId
LookupThrows(task, type) ==
    type = "assignment" /\ Truthy(task.assigned_to) /\ ~IsObjectId(task.assigned_to)

\* the documents sendNotifications hands to Notification.insertMany
NotificationBatch(usrs, userIds, task, type, actorId) ==
    [i \in 1..Len(userIds) |->
        NotificationDoc(userIds[i], task.id, Message(usrs, task, type, actorId), type)]

(* ------------------------------------------------------------------ *)
(* Initial state: empty task, group, audit and notification collections *)
(* ------------------------------------------------------------------ *)
\* the password the users of the initial store signed up with
Password == "pw"

\* useState({...}) of the task form, also what handleClose resets it to; the fields
\* the server model carries (group '' is no group)
EmptyForm ==
    [title |-> "", group |-> NoGroup, status |-> JNum(1), completed |-> JBool(FALSE),
     visibility |-> "private", assigned_by |-> None, assigned_to |-> None]

Init ==
    /\ users = [u \in Users |-> UserDoc(u, u, Hash(Password))]
    /\ tasks = <<>>
    /\ nextTaskId = 1
    /\ groups = <<>>
    /\ nextGroupId = 1
    /\ audits = <<>>
    /\ notifications = <<>>
    /\ req = [s \in Slots |-> Idle]
    /\ opsLeft = MaxOps
    /\ faults = 0
    /\ now = 0
    /\ tokens = {}
    /\ issued = <<>>
    /\ taskData = EmptyForm
    /\ editingTask = 0

\* a request arrives in slot s from an authenticated caller
Arrive(s, kind, caller, id) ==
    [Idle EXCEPT !.kind = kind, !.caller = caller, !.id = id]

\* a store operation of the request may fail (DependencyFailure)
CanFail == faults < MaxFaults

(* ------------------------------------------------------------------ *)
(* GET /api/tasks                                                       *)
(* ------------------------------------------------------------------ *)
\* the $in operand: await Group.find({ members: userId }).distinct('_id');
\* any user may hold the session
getTasks(s) ==
    /\ Accepts(s) /\ opsLeft > 0
    /\ \E caller \in Users :
          req' = [req EXCEPT ![s] =
                     [Arrive(s, "getTasks", caller, 0)
                         EXCEPT !.pc = "find", !.found = GroupsOfMember(groups, caller)]]
    /\ opsLeft' = opsLeft - 1
    /\ UNCHANGED <<sessionVars, clientVars>>
    /\ UNCHANGED <<users, tasks, nextTaskId, groups, nextGroupId, audits, notifications,
                   faults>>

\* tasks = await Task.find({ $or: [...] }); res.json(tasks)
getTasks_find(s) ==
    /\ req[s].kind = "getTasks" /\ req[s].pc = "find"
    /\ req' = [req EXCEPT ![s] =
                  [Respond(req[s], 200)
                      EXCEPT !.found = FindTasks(tasks, req[s].found, req[s].caller)]]
    /\ UNCHANGED <<sessionVars, clientVars>>
    /\ UNCHANGED <<users, tasks, nextTaskId, groups, nextGroupId, audits, notifications,
                   opsLeft, faults>>

(* ------------------------------------------------------------------ *)
(* POST /api/tasks                                                      *)
(* ------------------------------------------------------------------ *)
\* new Task({...}) and newTask.save(): owner is req.userId, group only when truthy
\* the bodies of POST /api/tasks
PostBodies(In) ==
    [title : In.titles, visibility : In.visibilities, group : In.groups,
     assigned_by : In.assigned_by, assigned_to : In.assigned_to,
     status : In.statuses, completed : In.completed]

\* the handler on the body b: completed is not among the keys it destructures, so the
\* new task takes the schema default
postTaskOf(s, caller, b) ==
    /\ Accepts(s) /\ opsLeft > 0 /\ nextTaskId <= MaxTasks
    /\ LET savedTask == TaskDoc(nextTaskId, b.title, b.visibility, b.group, caller,
                                b.assigned_by, b.assigned_to,
                                IF b.status = JUndef THEN DefaultStatus
                                ELSE CastNumber(b.status),
                                DefaultCompleted)
           r == Arrive(s, "postTask", caller, nextTaskId)
       IN  /\ tasks' = With(tasks, nextTaskId, savedTask)
           /\ nextTaskId' = nextTaskId + 1
           /\ req' = [req EXCEPT ![s] =
                         [r EXCEPT !.pc = "audit", !.doc = savedTask,
                                   !.changes = savedTask]]
    /\ opsLeft' = opsLeft - 1
    /\ UNCHANGED sessionVars
    /\ UNCHANGED <<users, groups, nextGroupId, audits, notifications, faults>>

postTask(s, In) ==
    /\ Accepts(s) /\ opsLeft > 0 /\ nextTaskId <= MaxTasks
    /\ \E caller \in In.callers, b \in PostBodies(In) : postTaskOf(s, caller, b)
    /\ UNCHANGED clientVars

(* ------------------------------------------------------------------ *)
(* PUT /api/tasks/:id                                                   *)
(* ------------------------------------------------------------------ *)
\* the bodies of PUT /api/tasks/:id: every key is a value or is absent; a falsy
\* group counts as absent (`...(group && { group })`)
Present(b) ==
    {k \in {"title", "visibility", "assigned_by", "assigned_to"} : b[k] # Absent}
        \cup {k \in {"status", "completed"} : b[k] # JUndef}
        \cup (IF b.group # NoGroup THEN {"group"} ELSE {})

PutBodies(In) ==
    {b \in [title : In.titles \cup {Absent}, visibility : In.visibilities \cup {Absent},
            group : In.groups \cup {NoGroup}, assigned_by : In.assigned_by \cup {Absent},
            assigned_to : In.assigned_to \cup {Absent},
            status : In.statuses \cup {JUndef}, completed : In.completed \cup {JUndef}] :
        Cardinality(Present(b)) <= MaxEdit}

\* the document after the update: the keys of the body overwrite the stored ones
ApplyUpdate(old, b) ==
    TaskDoc(old.id,
            IF b.title # Absent THEN b.title ELSE old.title,
            IF b.visibility # Absent THEN b.visibility ELSE old.visibility,
            IF b.group # NoGroup THEN b.group ELSE old.group,
            old.owner,
            IF b.assigned_by # Absent THEN b.assigned_by ELSE old.assigned_by,
            IF b.assigned_to # Absent THEN b.assigned_to ELSE old.assigned_to,
            IF b.status # JUndef THEN CastNumber(b.status) ELSE old.status,
            IF b.completed # JUndef THEN CastBoolean(b.completed) ELSE old.completed)

\* Task.findOneAndUpdate({_id}, {...}, {new: true}); 404 when it finds nothing
\* (an update with upsert: a missing task is created instead of answered 404)
putTaskOf_upsert(s, caller, id, b) ==
    /\ Accepts(s) /\ opsLeft > 0
    /\ LET r == Arrive(s, "putTask", caller, id)
           old == IF Exists(tasks, id) THEN tasks[id]
                  ELSE TaskDoc(id, "", "private", NoGroup, None, None, None,
                               DefaultStatus, DefaultCompleted)
           updatedTask == ApplyUpdate(old, b)
       IN  /\ tasks' = With(tasks, id, updatedTask)
           /\ req' = [req EXCEPT ![s] =
                         [r EXCEPT !.pc = "reread", !.doc = updatedTask, !.before = old]]
    /\ opsLeft' = opsLeft - 1
    /\ UNCHANGED sessionVars
    /\ UNCHANGED <<users, nextTaskId, groups, nextGroupId, audits, notifications, faults>>

\* (an update with conflict detection: refused while another update of the task is
\* being handled)
putTaskOf_conflict(s, caller, id, b) ==
    /\ Accepts(s) /\ opsLeft > 0
    /\ LET r == Arrive(s, "putTask", caller, id) IN
       IF ~Exists(tasks, id)
       THEN /\ req' = [req EXCEPT ![s] = Respond(r, 404)]
            /\ UNCHANGED tasks
       ELSE IF \E t \in Slots : req[t].kind = "putTask" /\ req[t].id = id /\ ~Free(t)
       THEN /\ req' = [req EXCEPT ![s] = Respond(r, 409)]
            /\ UNCHANGED tasks
       ELSE LET updatedTask == ApplyUpdate(tasks[id], b) IN
            /\ tasks' = With(tasks, id, updatedTask)
            /\ req' = [req EXCEPT ![s] =
                          [r EXCEPT !.pc = "reread", !.doc = updatedTask,
                                    !.before = tasks[id]]]
    /\ opsLeft' = opsLeft - 1
    /\ UNCHANGED sessionVars
    /\ UNCHANGED <<users, nextTaskId, groups, nextGroupId, audits, notifications, faults>>

putTaskOf(s, caller, id, b) ==
    /\ Accepts(s) /\ opsLeft > 0
    /\ LET r == Arrive(s, "putTask", caller, id) IN
       IF ~Exists(tasks, id)
       THEN /\ req' = [req EXCEPT ![s] = Respond(r, 404)]
            /\ UNCHANGED tasks
       ELSE LET updatedTask == ApplyUpdate(tasks[id], b) IN
            /\ tasks' = With(tasks, id, updatedTask)
            /\ req' = [req EXCEPT ![s] =
                          [r EXCEPT !.pc = "reread", !.doc = updatedTask,
                                    !.before = tasks[id]]]
    /\ opsLeft' = opsLeft - 1
    /\ UNCHANGED sessionVars
    /\ UNCHANGED <<users, nextTaskId, groups, nextGroupId, audits, notifications, faults>>

putTask(s, In) ==
    /\ Accepts(s) /\ opsLeft > 0
    /\ \E caller \in In.callers, id \in TaskIds, b \in PutBodies(In) :
          putTaskOf(s, caller, id, b)
    /\ UNCHANGED clientVars

\* oldTask = await Task.findById(id), read after the update was written; a task
\* deleted meanwhile gives null and oldTask.title throws (500)
putTask_reread(s) ==
    /\ req[s].kind = "putTask" /\ req[s].pc = "reread"
    /\ IF ~Exists(tasks, req[s].id)
       THEN req' = [req EXCEPT ![s] = Respond(req[s], 500)]
       ELSE req' = [req EXCEPT ![s].pc = "audit",
                               ![s].changes = UpdateChanges(tasks[req[s].id], req[s].doc)]
    /\ UNCHANGED <<sessionVars, clientVars>>
    /\ UNCHANGED <<users, tasks, nextTaskId, groups, nextGroupId, audits, notifications,
                   opsLeft, faults>>

(* ------------------------------------------------------------------ *)
(* DELETE /api/tasks/:id                                                *)
(* ------------------------------------------------------------------ *)
\* taskToDelete = await Task.findById(id); 404 when null
deleteTask(s, In) ==
    /\ Accepts(s) /\ opsLeft > 0
    /\ \E caller \in In.callers, id \in TaskIds :
          LET r == Arrive(s, "deleteTask", caller, id) IN
          IF ~Exists(tasks, id)
          THEN req' = [req EXCEPT ![s] = Respond(r, 404)]
          ELSE req' = [req EXCEPT ![s] =
                          [r EXCEPT !.pc = "audit", !.doc = tasks[id],
                                    !.changes = DeleteSnapshot(tasks[id])]]
    /\ opsLeft' = opsLeft - 1
    /\ UNCHANGED <<sessionVars, clientVars>>
    /\ UNCHANGED <<users, tasks, nextTaskId, groups, nextGroupId, audits, notifications,
                   faults>>

\* Task.findOneAndDelete({_id}): removes the task if it is still there; a store
\* failure throws (500)
deleteTask_delete(s) ==
    /\ req[s].kind = "deleteTask" /\ req[s].pc = "delete"
    /\ \/ /\ tasks' = Without(tasks, req[s].id)
          /\ req' = [req EXCEPT ![s].pc = "resolve"]
          /\ UNCHANGED faults
       \/ /\ CanFail
          /\ faults' = faults + 1
          /\ req' = [req EXCEPT ![s] =
                        [Respond(req[s], 500) EXCEPT !.storeFailed = TRUE]]
          /\ UNCHANGED tasks
    /\ UNCHANGED <<sessionVars, clientVars>>
    /\ UNCHANGED <<users, nextTaskId, groups, nextGroupId, audits, notifications, opsLeft>>

(* ------------------------------------------------------------------ *)
(* Steps shared by the three task handlers                              *)
(* ------------------------------------------------------------------ *)
AuditAction(kind) ==
    CASE kind = "postTask" -> "create"
      [] kind = "putTask" -> "update"
      [] kind = "deleteTask" -> "delete"

NotifyType(kind) ==
    CASE kind = "postTask" -> "assignment"
      [] kind = "putTask" -> "update"
      [] kind = "deleteTask" -> "deleted"

SuccessStatus(kind) == IF kind = "postTask" THEN 201 ELSE 200

\* await recordAudit(task._id, action, req.userId, changes)
handler_recordAudit(s) ==
    /\ req[s].pc = "audit"
    /\ \E saved \in BOOLEAN :
          /\ saved \/ CanFail
          /\ faults' = IF saved THEN faults ELSE faults + 1
          /\ audits' = recordAudit(audits, req[s].id, AuditAction(req[s].kind),
                                   req[s].caller, req[s].changes, saved)
          /\ LET next == AfterAudit(req[s].kind, saved)
                 r == [req[s] EXCEPT !.auditFailed = ~saved,
                                     !.audit = IF audits' # audits
                                               THEN audits'[Len(audits')] ELSE NoDoc]
             IN  req' = [req EXCEPT ![s] = [r EXCEPT !.pc = next, !.changes = NoDoc]]
    /\ UNCHANGED <<sessionVars, clientVars>>
    /\ UNCHANGED <<users, tasks, nextTaskId, groups, nextGroupId, notifications, opsLeft>>

\* usersToNotify = await getUsersToNotify(task)
handler_getUsersToNotify(s) ==
    /\ req[s].pc = "resolve"
    /\ LET got == getUsersToNotify(req[s].doc, groups) IN
       req' = [req EXCEPT ![s].pc = "send", ![s].recipients = got.users,
                          ![s].resolveFailed = got.threw]
    /\ UNCHANGED <<sessionVars, clientVars>>
    /\ UNCHANGED <<users, tasks, nextTaskId, groups, nextGroupId, audits, notifications,
                   opsLeft, faults>>

\* await sendNotifications(usersToNotify, task, type, req.userId), then the response;
\* a throw inside it lands in the handler's catch (500)
handler_sendNotifications(s) ==
    /\ req[s].pc = "send"
    /\ LET type == NotifyType(req[s].kind)
           docs == NotificationBatch(users, req[s].recipients, req[s].doc, type,
                                     req[s].caller)
       IN  \/ /\ ~LookupThrows(req[s].doc, type)
              /\ notifications' = notifications \o docs
              /\ req' = [req EXCEPT ![s] =
                            [Respond(req[s], SuccessStatus(req[s].kind))
                                EXCEPT !.batch = docs]]
              /\ UNCHANGED faults
           \/ /\ LookupThrows(req[s].doc, type) \/ CanFail
              /\ faults' = IF LookupThrows(req[s].doc, type) THEN faults ELSE faults + 1
              /\ req' = [req EXCEPT ![s] =
                            [Respond(req[s], 500) EXCEPT !.notifyFailed = TRUE]]
              /\ UNCHANGED notifications
    /\ UNCHANGED <<sessionVars, clientVars>>
    /\ UNCHANGED <<users, tasks, nextTaskId, groups, nextGroupId, audits, opsLeft>>

(* ------------------------------------------------------------------ *)
(* Groups                                                               *)
(* ------------------------------------------------------------------ *)
\* POST /api/groups: new Group({name, owner: req.userId, members}).save()
postGroup(s, In) ==
    /\ Accepts(s) /\ opsLeft > 0 /\ nextGroupId <= MaxGroups
    /\ \E caller \in In.callers, members \in In.members :
          LET r == Arrive(s, "postGroup", caller, nextGroupId) IN
          /\ groups' = With(groups, nextGroupId, GroupDoc(nextGroupId, "G", caller, members))
          /\ req' = [req EXCEPT ![s] = Respond(r, 201)]
    /\ nextGroupId' = nextGroupId + 1
    /\ opsLeft' = opsLeft - 1
    /\ UNCHANGED <<sessionVars, clientVars>>
    /\ UNCHANGED <<users, tasks, nextTaskId, audits, notifications, faults>>

\* (an update handler that lets every member of the group through)
putGroup_membersMayEdit(s, In) ==
    /\ Accepts(s) /\ opsLeft > 0
    /\ \E caller \in In.callers, id \in GroupIds, name \in In.names,
          members \in In.members, owner \in In.callers :
          LET r == Arrive(s, "putGroup", caller, id) IN
          req' = [req EXCEPT ![s] =
                     IF ~Exists(groups, id) THEN Respond(r, 404)
                     ELSE IF groups[id].owner # caller /\ caller \notin groups[id].members
                          THEN Respond(r, 403)
                     ELSE [r EXCEPT !.pc = "gsave", !.doc = groups[id],
                                    !.body = GroupDoc(id, name, owner, members)]]
    /\ opsLeft' = opsLeft - 1
    /\ UNCHANGED <<sessionVars, clientVars>>
    /\ UNCHANGED <<users, tasks, nextTaskId, groups, nextGroupId, audits, notifications,
                   faults>>

\* PUT /api/groups/:id up to the owner check: Group.findById, 404, 403
putGroup(s, In) ==
    /\ Accepts(s) /\ opsLeft > 0
    /\ \E caller \in In.callers, id \in GroupIds, name \in In.names,
          members \in In.members, owner \in In.callers :
          LET r == Arrive(s, "putGroup", caller, id) IN
          req' = [req EXCEPT ![s] =
                     IF ~Exists(groups, id) THEN Respond(r, 404)
                     ELSE IF groups[id].owner # caller THEN Respond(r, 403)
                     ELSE [r EXCEPT !.pc = "gsave", !.doc = groups[id],
                                    !.body = GroupDoc(id, name, owner, members)]]
    /\ opsLeft' = opsLeft - 1
    /\ UNCHANGED <<sessionVars, clientVars>>
    /\ UNCHANGED <<users, tasks, nextTaskId, groups, nextGroupId, audits, notifications,
                   faults>>

\* group.save(): writes the paths whose value differs from the loaded document;
\* a document deleted meanwhile makes save throw (500)
putGroup_save(s) ==
    /\ req[s].kind = "putGroup" /\ req[s].pc = "gsave"
    /\ IF ~Exists(groups, req[s].id)
       THEN /\ req' = [req EXCEPT ![s] = Respond(req[s], 500)]
            /\ UNCHANGED groups
       ELSE LET cur == groups[req[s].id]
                loaded == req[s].doc
                new == req[s].body
                saved == GroupDoc(cur.id,
                           IF new.name # loaded.name THEN new.name ELSE cur.name,
                           IF new.owner # loaded.owner THEN new.owner ELSE cur.owner,
                           IF new.members # loaded.members THEN new.members ELSE cur.members)
            IN  /\ groups' = With(groups, req[s].id, saved)
                /\ req' = [req EXCEPT ![s] = [Respond(req[s], 200) EXCEPT !.doc = NoDoc]]
    /\ UNCHANGED <<sessionVars, clientVars>>
    /\ UNCHANGED <<users, tasks, nextTaskId, nextGroupId, audits, notifications, opsLeft,
                   faults>>

\* (a delete handler without the owner check)
deleteGroup_noOwnerCheck(s, In) ==
    /\ Accepts(s) /\ opsLeft > 0
    /\ \E caller \in In.callers, id \in GroupIds :
          LET r == Arrive(s, "deleteGroup", caller, id) IN
          req' = [req EXCEPT ![s] =
                     IF ~Exists(groups, id) THEN Respond(r, 404)
                     ELSE [r EXCEPT !.pc = "gdelete"]]
    /\ opsLeft' = opsLeft - 1
    /\ UNCHANGED <<sessionVars, clientVars>>
    /\ UNCHANGED <<users, tasks, nextTaskId, groups, nextGroupId, audits, notifications,
                   faults>>

\* DELETE /api/groups/:id up to the owner check: Group.findById, 404, 403
deleteGroup(s, In) ==
    /\ Accepts(s) /\ opsLeft > 0
    /\ \E caller \in In.callers, id \in GroupIds :
          LET r == Arrive(s, "deleteGroup", caller, id) IN
          req' = [req EXCEPT ![s] =
                     IF ~Exists(groups, id) THEN Respond(r, 404)
                     ELSE IF groups[id].owner # caller THEN Respond(r, 403)
                     ELSE [r EXCEPT !.pc = "gdelete"]]
    /\ opsLeft' = opsLeft - 1
    /\ UNCHANGED <<sessionVars, clientVars>>
    /\ UNCHANGED <<users, tasks, nextTaskId, groups, nextGroupId, audits, notifications,
                   faults>>

\* await Group.findByIdAndDelete(groupId)
deleteGroup_delete(s) ==
    /\ req[s].kind = "deleteGroup" /\ req[s].pc = "gdelete"
    /\ groups' = Without(groups, req[s].id)
    /\ req' = [req EXCEPT ![s].pc = "cascade"]
    /\ UNCHANGED <<sessionVars, clientVars>>
    /\ UNCHANGED <<users, tasks, nextTaskId, nextGroupId, audits, notifications, opsLeft,
                   faults>>

\* (a cascade that also clears the audit records of the tasks it removes)
deleteGroup_cascade_withAudits(s) ==
    /\ req[s].kind = "deleteGroup" /\ req[s].pc = "cascade"
    /\ tasks' = [i \in {j \in DOMAIN tasks : tasks[j].group # req[s].id} |-> tasks[i]]
    /\ audits' = SelectSeq(audits, LAMBDA a : a.taskId \in DOMAIN tasks')
    /\ req' = [req EXCEPT ![s].pc = "cascaded"]
    /\ UNCHANGED <<sessionVars, clientVars>>
    /\ UNCHANGED <<users, nextTaskId, groups, nextGroupId, notifications, opsLeft, faults>>

\* (a cascade that takes only the tasks still shared with the group)
deleteGroup_cascade_groupVisibleOnly(s) ==
    /\ req[s].kind = "deleteGroup" /\ req[s].pc = "cascade"
    /\ tasks' = [i \in {j \in DOMAIN tasks : ~(tasks[j].group = req[s].id
                                                /\ tasks[j].visibility = "group")}
                    |-> tasks[i]]
    /\ req' = [req EXCEPT ![s].pc = "cascaded"]
    /\ UNCHANGED <<sessionVars, clientVars>>
    /\ UNCHANGED <<users, nextTaskId, groups, nextGroupId, audits, notifications, opsLeft,
                   faults>>

\* Task.deleteMany({ group: groupId }) takes effect in the store
deleteGroup_cascade(s) ==
    /\ req[s].kind = "deleteGroup" /\ req[s].pc = "cascade"
    /\ tasks' = [i \in {j \in DOMAIN tasks : tasks[j].group # req[s].id} |-> tasks[i]]
    /\ req' = [req EXCEPT ![s].pc = "cascaded"]
    /\ UNCHANGED <<sessionVars, clientVars>>
    /\ UNCHANGED <<users, nextTaskId, groups, nextGroupId, audits, notifications, opsLeft,
                   faults>>

\* the await of deleteMany resumes the handler: res.json({ message: 'Group deleted' })
deleteGroup_respond(s) ==
    /\ req[s].kind = "deleteGroup" /\ req[s].pc = "cascaded"
    /\ req' = [req EXCEPT ![s] = Respond(req[s], 200)]
    /\ UNCHANGED <<sessionVars, clientVars>>
    /\ UNCHANGED <<users, tasks, nextTaskId, groups, nextGroupId, audits, notifications,
                   opsLeft, faults>>

(* ------------------------------------------------------------------ *)
(* GET /api/tasks/:id/audit                                             *)
(* ------------------------------------------------------------------ *)
\* a sequence in reverse order
RECURSIVE Reverse(_)
Reverse(q) == IF q = <<>> THEN <<>> ELSE Append(Reverse(Tail(q)), Head(q))

\* Audit.find({ taskId }).populate('changedBy', 'name').sort({ timestamp: -1 })
FindAudits(log, usrs, taskId) ==
    LET mine == SelectSeq(log, LAMBDA a : a.taskId = taskId)
        populated == [i \in 1..Len(mine) |->
                         [mine[i] EXCEPT !.changedBy =
                             IF Exists(usrs, mine[i].changedBy)
                             THEN <<mine[i].changedBy, usrs[mine[i].changedBy].name>>
                             ELSE <<None, None>>]]
    IN  Reverse(populated)

\* (a handler without the lookup of the task: the records are found by taskId alone)
getTaskAudit_noLookup(s, In) ==
    /\ Accepts(s) /\ opsLeft > 0
    /\ \E caller \in In.callers, id \in TaskIds :
          req' = [req EXCEPT ![s] =
                     [Arrive(s, "getTaskAudit", caller, id) EXCEPT !.pc = "logs"]]
    /\ opsLeft' = opsLeft - 1
    /\ UNCHANGED <<sessionVars, clientVars>>
    /\ UNCHANGED <<users, tasks, nextTaskId, groups, nextGroupId, audits, notifications,
                   faults>>

\* (a lookup scoped by the caller's visibility: the filter of GET /api/tasks added to
\* the findOne)
getTaskAudit_scoped(s, In) ==
    /\ Accepts(s) /\ opsLeft > 0
    /\ \E caller \in In.callers, id \in TaskIds :
          LET r == Arrive(s, "getTaskAudit", caller, id) IN
          req' = [req EXCEPT ![s] =
                     IF id \notin FindTasks(tasks, GroupsOfMember(groups, caller), caller)
                     THEN Respond(r, 404)
                     ELSE [r EXCEPT !.pc = "logs"]]
    /\ opsLeft' = opsLeft - 1
    /\ UNCHANGED <<sessionVars, clientVars>>
    /\ UNCHANGED <<users, tasks, nextTaskId, groups, nextGroupId, audits, notifications,
                   faults>>

\* task = await Task.findOne({ _id: taskId }); 404 when null
getTaskAudit(s, In) ==
    /\ Accepts(s) /\ opsLeft > 0
    /\ \E caller \in In.callers, id \in TaskIds :
          LET r == Arrive(s, "getTaskAudit", caller, id) IN
          req' = [req EXCEPT ![s] =
                     IF ~Exists(tasks, id) THEN Respond(r, 404)
                     ELSE [r EXCEPT !.pc = "logs"]]
    /\ opsLeft' = opsLeft - 1
    /\ UNCHANGED <<sessionVars, clientVars>>
    /\ UNCHANGED <<users, tasks, nextTaskId, groups, nextGroupId, audits, notifications,
                   faults>>

\* auditLogs = await Audit.find(...); res.json(auditLogs)
getTaskAudit_find(s) ==
    /\ req[s].kind = "getTaskAudit" /\ req[s].pc = "logs"
    /\ req' = [req EXCEPT ![s] =
                  [Respond(req[s], 200)
                      EXCEPT !.logs = FindAudits(audits, users, req[s].id)]]
    /\ UNCHANGED <<sessionVars, clientVars>>
    /\ UNCHANGED <<users, tasks, nextTaskId, groups, nextGroupId, audits, notifications,
                   opsLeft, faults>>

(* ------------------------------------------------------------------ *)
(* Sessions: jwt.sign, jwt.verify, authMiddleware                       *)
(* ------------------------------------------------------------------ *)
\* expiresIn: '1h', in ticks of the clock (a tick is half an hour)
Hour == 2

\* a token without an exp claim
NoExp == 0 - 1

\* jwt.sign({ userId }, JWT_SECRET, options): iat is the time of signing
Token(userId, iat, exp) == [kind |-> "jwt", userId |-> userId, iat |-> iat, exp |-> exp]

\* a request without the jwt cookie, and one whose cookie the server did not sign
NoCookie == [kind |-> "none", userId |-> None, iat |-> 0, exp |-> NoExp]
Forged == [kind |-> "forged", userId |-> "u1", iat |-> 0, exp |-> NoExp]

\* what a client can send as its jwt cookie: nothing, a string of its own, or any
\* token the server has handed out
Cookies == {NoCookie, Forged} \cup tokens

\* jwt.verify(token, JWT_SECRET): throws on a bad signature and, when the token has an
\* exp claim, once the clock has reached it
Verifies(token, t) ==
    /\ token.kind = "jwt"
    /\ token.exp = NoExp \/ t < token.exp

\* authMiddleware: 401 without a cookie or when verify throws, else req.userId is set
authMiddleware(cookie, t) ==
    IF cookie.kind = "none" \/ ~Verifies(cookie, t)
    THEN [ok |-> FALSE, userId |-> None]
    ELSE [ok |-> TRUE, userId |-> cookie.userId]

\* the user ids authMiddleware lets through at this moment
Authenticated == {c.userId : c \in {d \in Cookies : authMiddleware(d, now).ok}}

\* the routes registered with authMiddleware
GatedRoutes ==
    {"putUser", "getUsers", "getTasks", "postTask", "putTask", "deleteTask", "getGroups",
     "postGroup", "putGroup", "deleteGroup", "getTaskAudit", "getNotifications",
     "markAllRead"}

\* the routes this specification lets arrive without a session
Knocked == {"putUser", "postTask", "getNotifications", "markAllRead"}

\* authMiddleware answers 401 and the route's handler is never called
unauthorized(s) ==
    /\ Accepts(s) /\ opsLeft > 0
    /\ \E route \in GatedRoutes \cap Knocked, cookie \in Cookies :
          /\ ~authMiddleware(cookie, now).ok
          /\ req' = [req EXCEPT ![s] =
                        Respond([Arrive(s, route, None, 0)
                                    EXCEPT !.cookie = cookie, !.at = now], 401)]
    /\ opsLeft' = opsLeft - 1
    /\ UNCHANGED <<users, tasks, nextTaskId, groups, nextGroupId, audits, notifications,
                   faults, sessionVars, clientVars>>

\* time passes
tick ==
    /\ now < MaxTime
    /\ now' = now + 1
    /\ UNCHANGED <<users, tasks, nextTaskId, groups, nextGroupId, audits, notifications,
                   req, opsLeft, faults, tokens, issued, clientVars>>

(* ------------------------------------------------------------------ *)
(* Users: signup, login, profile update                                 *)
(* ------------------------------------------------------------------ *)
\* the request bodies of the user routes
UserIn ==
    [names |-> {"N"}, usernames |-> {"u1", "n"}, passwords |-> {Password},
     logins |-> {"u2", "n"}, targets |-> {"u2", "u3", "u5"}]

\* the _id of the next new User
NewUserId(usrs) ==
    LET free == {i \in 1..Len(SignupIds) : SignupIds[i] \notin DOMAIN usrs}
    IN  SignupIds[CHOOSE i \in free : \A j \in free : i <= j]

\* User.findOne({ username }): the ids of the matching users
FindByUsername(usrs, username) == {i \in DOMAIN usrs : usrs[i].username = username}

\* (a store without the unique index on username)
SaveUser_noIndex(usrs, id, doc) == [threw |-> FALSE, users |-> With(usrs, id, doc)]

\* user.save() under the unique index of userSchema.username: a second document with
\* the username makes the write throw a duplicate-key error
SaveUser(usrs, id, doc) ==
    IF FindByUsername(usrs, doc.username) \ {id} # {}
    THEN [threw |-> TRUE, users |-> usrs]
    ELSE [threw |-> FALSE, users |-> With(usrs, id, doc)]

\* POST /api/users/signup up to the check: existingUser = await User.findOne({username})
postSignup(s) ==
    /\ Accepts(s) /\ opsLeft > 0
    /\ \E i \in 1..Len(SignupIds) : SignupIds[i] \notin DOMAIN users
    /\ \E name \in UserIn.names, username \in UserIn.usernames,
          password \in UserIn.passwords :
          LET r == Arrive(s, "postSignup", None, 0) IN
          req' = [req EXCEPT ![s] =
                     IF FindByUsername(users, username) # {} THEN Respond(r, 400)
                     ELSE [r EXCEPT !.pc = "usersave",
                                    !.body = UserDoc(name, username, Hash(password))]]
    /\ opsLeft' = opsLeft - 1
    /\ UNCHANGED <<users, tasks, nextTaskId, groups, nextGroupId, audits, notifications,
                   faults, sessionVars, clientVars>>

\* await newUser.save(); a throw lands in the catch (500)
postSignup_save(s) ==
    /\ req[s].kind = "postSignup" /\ req[s].pc = "usersave"
    /\ \E i \in 1..Len(SignupIds) : SignupIds[i] \notin DOMAIN users
    /\ LET id == NewUserId(users)
           saved == SaveUser(users, id, req[s].body)
       IN  /\ users' = saved.users
           /\ req' = [req EXCEPT ![s] =
                         IF saved.threw
                         THEN [Respond(req[s], 500) EXCEPT !.storeFailed = TRUE]
                         ELSE [req[s] EXCEPT !.pc = "mail", !.caller = id]]
    /\ UNCHANGED <<tasks, nextTaskId, groups, nextGroupId, audits, notifications,
                   opsLeft, faults, sessionVars, clientVars>>

\* await transporter.sendMail(...), then jwt.sign({ userId }, JWT_SECRET) with no
\* options and 201; a mail failure lands in the catch (500), the user stays stored
postSignup_mail(s) ==
    /\ req[s].kind = "postSignup" /\ req[s].pc = "mail"
    /\ \/ /\ tokens' = tokens \cup {Token(req[s].caller, now, NoExp)}
          /\ req' = [req EXCEPT ![s] =
                        [Respond(req[s], 201)
                            EXCEPT !.cookie = Token(req[s].caller, now, NoExp)]]
          /\ UNCHANGED faults
       \/ /\ CanFail
          /\ faults' = faults + 1
          /\ req' = [req EXCEPT ![s] = Respond(req[s], 500)]
          /\ UNCHANGED tokens
    /\ UNCHANGED <<users, tasks, nextTaskId, groups, nextGroupId, audits, notifications,
                   opsLeft, now, issued, clientVars>>

\* POST /api/users/login: findOne, bcrypt.compare, jwt.sign(..., { expiresIn: '1h' })
postLogin(s) ==
    /\ Accepts(s) /\ opsLeft > 0
    /\ \E username \in UserIn.logins, password \in UserIn.passwords :
          LET r == Arrive(s, "postLogin", None, 0)
              found == FindByUsername(users, username)
              id == CHOOSE i \in found : TRUE
          IN  IF found = {} \/ ~Compare(password, users[id].password)
              THEN /\ req' = [req EXCEPT ![s] = Respond(r, 400)]
                   /\ UNCHANGED tokens
              ELSE /\ tokens' = tokens \cup {Token(id, now, now + Hour)}
                   /\ req' = [req EXCEPT ![s] =
                                 [Respond(r, 200)
                                     EXCEPT !.caller = id,
                                            !.cookie = Token(id, now, now + Hour)]]
    /\ opsLeft' = opsLeft - 1
    /\ UNCHANGED <<users, tasks, nextTaskId, groups, nextGroupId, audits, notifications,
                   faults, now, issued, clientVars>>

\* PUT /api/users/:id past authMiddleware, up to the checks: findById, 404, 403
putUser(s) ==
    /\ Accepts(s) /\ opsLeft > 0
    /\ \E cookie \in Cookies, id \in UserIn.targets, name \in UserIn.names,
          username \in UserIn.usernames :
          LET auth == authMiddleware(cookie, now)
              r == [Arrive(s, "putUser", auth.userId, 0)
                       EXCEPT !.cookie = cookie, !.at = now]
          IN  /\ auth.ok
              /\ req' = [req EXCEPT ![s] =
                         IF ~Exists(users, id) THEN Respond(r, 404)
                         ELSE IF id # auth.userId THEN Respond(r, 403)
                         ELSE [r EXCEPT !.pc = "profile", !.doc = users[id],
                                        !.body = [users[id] EXCEPT !.name = name,
                                                                   !.username = username]]]
    /\ opsLeft' = opsLeft - 1
    /\ UNCHANGED <<users, tasks, nextTaskId, groups, nextGroupId, audits, notifications,
                   faults, sessionVars, clientVars>>

\* updatedUser = await user.save(): writes the paths whose value differs from the
\* loaded document; a throw lands in the catch (500)
putUser_save(s) ==
    /\ req[s].kind = "putUser" /\ req[s].pc = "profile"
    /\ LET cur == users[req[s].caller]
           loaded == req[s].doc
           new == req[s].body
           doc == [cur EXCEPT
                      !.name = IF new.name # loaded.name THEN new.name ELSE cur.name,
                      !.username = IF new.username # loaded.username
                                   THEN new.username ELSE cur.username]
           saved == SaveUser(users, req[s].caller, doc)
       IN
       /\ users' = saved.users
       /\ req' = [req EXCEPT ![s] =
                     IF saved.threw
                     THEN [Respond(req[s], 500) EXCEPT !.storeFailed = TRUE]
                     ELSE Respond(req[s], 200)]
    /\ UNCHANGED <<tasks, nextTaskId, groups, nextGroupId, audits, notifications,
                   opsLeft, faults, sessionVars, clientVars>>

(* ------------------------------------------------------------------ *)
(* Password reset: forgot-password, reset-password                      *)
(* ------------------------------------------------------------------ *)
\* the request bodies of the two routes: email and password (token is drawn from the
\* tokens generated so far, a string never generated, and a body without a token)
ResetIn == [emails |-> {"u2", "u3", "nobody"}, passwords |-> {"pw2"}]

\* what a client can send as its reset token
ResetTokens == {NoToken, Guess} \cup {ResetToken(n) : n \in 1..Len(issued)}

\* User.findOne({ resetToken: token, resetTokenExpiration: { $gt: Date.now() } }): the
\* ids of the matching users (a missing field never matches $gt)
FindByResetToken(usrs, token, t) ==
    {i \in DOMAIN usrs : /\ usrs[i].resetToken = token
                         /\ usrs[i].resetTokenExpiration # NoDate
                         /\ usrs[i].resetTokenExpiration > t}

\* POST /api/users/forgot-password up to the check: User.findOne({ username: email }), 404
postForgotPassword(s) ==
    /\ Accepts(s) /\ opsLeft > 0
    /\ \E email \in ResetIn.emails :
          LET r == Arrive(s, "postForgotPassword", None, 0)
              found == FindByUsername(users, email)
          IN  req' = [req EXCEPT ![s] =
                         IF found = {} THEN Respond(r, 404)
                         ELSE [r EXCEPT !.pc = "tokensave",
                                        !.caller = CHOOSE i \in found : TRUE]]
    /\ opsLeft' = opsLeft - 1
    /\ UNCHANGED <<users, tasks, nextTaskId, groups, nextGroupId, audits, notifications,
                   faults, sessionVars, clientVars>>

\* token = crypto.randomBytes(32).toString('hex'); user.resetToken = token;
\* user.resetTokenExpiration = Date.now() + 3600000; await user.save()
postForgotPassword_save(s) ==
    /\ req[s].kind = "postForgotPassword" /\ req[s].pc = "tokensave"
    /\ LET token == ResetToken(Len(issued) + 1) IN
       /\ issued' = Append(issued, now)
       /\ users' = [users EXCEPT ![req[s].caller].resetToken = token,
                                 ![req[s].caller].resetTokenExpiration = now + Hour]
       /\ req' = [req EXCEPT ![s].pc = "tokenmail", ![s].token = token]
    /\ UNCHANGED <<tasks, nextTaskId, groups, nextGroupId, audits, notifications,
                   opsLeft, faults, now, tokens, clientVars>>

\* await transporter.sendMail(...) and the response; a mail failure lands in the catch
\* (500), the token stays stored
postForgotPassword_mail(s) ==
    /\ req[s].kind = "postForgotPassword" /\ req[s].pc = "tokenmail"
    /\ \/ /\ req' = [req EXCEPT ![s] = Respond(req[s], 200)]
          /\ UNCHANGED faults
       \/ /\ CanFail
          /\ faults' = faults + 1
          /\ req' = [req EXCEPT ![s] = Respond(req[s], 500)]
    /\ UNCHANGED <<users, tasks, nextTaskId, groups, nextGroupId, audits, notifications,
                   opsLeft, sessionVars, clientVars>>

\* POST /api/users/reset-password up to the check: the findOne on token and expiration,
\* 400 when it finds nobody
postResetPassword(s) ==
    /\ Accepts(s) /\ opsLeft > 0
    /\ \E token \in ResetTokens, password \in ResetIn.passwords :
          LET r == [Arrive(s, "postResetPassword", None, 0)
                       EXCEPT !.token = token, !.at = now]
              found == FindByResetToken(users, token, now)
          IN  req' = [req EXCEPT ![s] =
                         IF found = {} THEN Respond(r, 400)
                         ELSE [r EXCEPT !.pc = "pwsave",
                                        !.caller = CHOOSE i \in found : TRUE,
                                        !.body = [id |-> 0, password |-> password]]]
    /\ opsLeft' = opsLeft - 1
    /\ UNCHANGED <<users, tasks, nextTaskId, groups, nextGroupId, audits, notifications,
                   faults, sessionVars, clientVars>>

\* (a save that leaves the token and its expiration in place)
postResetPassword_save_keepsToken(s) ==
    /\ req[s].kind = "postResetPassword" /\ req[s].pc = "pwsave"
    /\ users' = [users EXCEPT ![req[s].caller].password = Hash(req[s].body.password)]
    /\ req' = [req EXCEPT ![s] = Respond(req[s], 200)]
    /\ UNCHANGED <<tasks, nextTaskId, groups, nextGroupId, audits, notifications,
                   opsLeft, faults, sessionVars, clientVars>>

\* after bcrypt.genSalt and bcrypt.hash: user.password = hashedPassword; resetToken and
\* resetTokenExpiration = undefined; await user.save(); 200
postResetPassword_save(s) ==
    /\ req[s].kind = "postResetPassword" /\ req[s].pc = "pwsave"
    /\ users' = [users EXCEPT ![req[s].caller].password = Hash(req[s].body.password),
                              ![req[s].caller].resetToken = NoToken,
                              ![req[s].caller].resetTokenExpiration = NoDate]
    /\ req' = [req EXCEPT ![s] = Respond(req[s], 200)]
    /\ UNCHANGED <<tasks, nextTaskId, groups, nextGroupId, audits, notifications,
                   opsLeft, faults, sessionVars, clientVars>>

(* ------------------------------------------------------------------ *)
(* Notification routes                                                  *)
(* ------------------------------------------------------------------ *)
\* .limit(30) of GET /api/notifications
NotificationLimit == 30

\* Notification.find({ userId }).sort({ createdAt: -1 }).limit(30): the positions of
\* the user's notifications, newest first
FindNotifications(notifs, userId) ==
    LET mine == Reverse(SelectSeq([i \in 1..Len(notifs) |-> i],
                                  LAMBDA i : notifs[i].userId = userId))
    IN  SubSeq(mine, 1, IF Len(mine) < NotificationLimit THEN Len(mine)
                        ELSE NotificationLimit)

\* GET /api/notifications past authMiddleware
getNotifications(s) ==
    /\ Accepts(s) /\ opsLeft > 0
    /\ \E cookie \in Cookies :
          LET auth == authMiddleware(cookie, now)
              r == [Arrive(s, "getNotifications", auth.userId, 0)
                       EXCEPT !.cookie = cookie, !.at = now]
          IN  /\ auth.ok
              /\ req' = [req EXCEPT ![s] =
                            [Respond(r, 200)
                                EXCEPT !.logs = FindNotifications(notifications,
                                                                  auth.userId)]]
    /\ opsLeft' = opsLeft - 1
    /\ UNCHANGED <<users, tasks, nextTaskId, groups, nextGroupId, audits, notifications,
                   faults, sessionVars, clientVars>>

\* (an update that flips the flag instead of setting it)
MarkRead_toggle(notifs, id) ==
    IF id \in 1..Len(notifs) THEN [notifs EXCEPT ![id].read = ~notifs[id].read] ELSE notifs

\* Notification.findByIdAndUpdate(id, { read: true }); an id of no notification
\* updates nothing
MarkRead(notifs, id) ==
    IF id \in 1..Len(notifs) THEN [notifs EXCEPT ![id].read = TRUE] ELSE notifs

\* PUT /api/notifications/:id/read: registered without authMiddleware, so the cookie
\* is not looked at; 204
markRead(s) ==
    /\ Accepts(s) /\ opsLeft > 0
    /\ \E cookie \in Cookies, id \in 1..(Len(notifications) + 1) :
          /\ notifications' = MarkRead(notifications, id)
          /\ req' = [req EXCEPT ![s] =
                        Respond([Arrive(s, "markRead", None, id)
                                    EXCEPT !.cookie = cookie, !.at = now,
                                           !.before = IF id \in 1..Len(notifications)
                                                      THEN notifications[id]
                                                      ELSE NoDoc], 204)]
    /\ opsLeft' = opsLeft - 1
    /\ UNCHANGED <<users, tasks, nextTaskId, groups, nextGroupId, audits, faults,
                   sessionVars, clientVars>>

\* (an update without the userId in its filter)
MarkAllRead_everyUser(notifs, userId) ==
    [i \in 1..Len(notifs) |-> [notifs[i] EXCEPT !.read = TRUE]]

\* Notification.updateMany({ userId, read: false }, { read: true })
MarkAllRead(notifs, userId) ==
    [i \in 1..Len(notifs) |->
        IF notifs[i].userId = userId /\ notifs[i].read = FALSE
        THEN [notifs[i] EXCEPT !.read = TRUE] ELSE notifs[i]]

\* PUT /api/notifications/mark-all-read past authMiddleware
markAllRead(s) ==
    /\ Accepts(s) /\ opsLeft > 0
    /\ \E cookie \in Cookies :
          LET auth == authMiddleware(cookie, now)
              r == [Arrive(s, "markAllRead", auth.userId, 0)
                       EXCEPT !.cookie = cookie, !.at = now]
          IN  /\ auth.ok
              /\ notifications' = MarkAllRead(notifications, auth.userId)
              /\ req' = [req EXCEPT ![s] = Respond(r, 200)]
    /\ opsLeft' = opsLeft - 1
    /\ UNCHANGED <<users, tasks, nextTaskId, groups, nextGroupId, audits, faults,
                   sessionVars, clientVars>>

(* ------------------------------------------------------------------ *)
(* The client's task form and status dropdown (Task.js)                 *)
(* ------------------------------------------------------------------ *)
\* the user whose browser runs the form
FormUser == "u2"

\* the fields the form's inputs set through handleChange, with the values they are
\* given here; the status <Select> yields strings
FormInputs ==
    {<<"title", "A">>, <<"assigned_by", "u4">>, <<"assigned_to", "u3">>,
     <<"status", JStr(3)>>, <<"status", JStr(6)>>}

\* handleEdit(task): the form takes the fields of a listed task as the server sent them
FormOf(task) ==
    [title |-> task.title, group |-> task.group, status |-> JNum(task.status),
     completed |-> JBool(task.completed), visibility |-> task.visibility,
     assigned_by |-> task.assigned_by, assigned_to |-> task.assigned_to]

handleEdit ==
    /\ \E id \in DOMAIN tasks :
          /\ editingTask' = id
          /\ taskData' = FormOf(tasks[id])
    /\ UNCHANGED <<users, tasks, nextTaskId, groups, nextGroupId, audits, notifications,
                   req, opsLeft, faults, sessionVars>>

\* handleClose: the form is reset
handleClose ==
    /\ taskData # EmptyForm \/ editingTask # 0
    /\ taskData' = EmptyForm
    /\ editingTask' = 0
    /\ UNCHANGED <<users, tasks, nextTaskId, groups, nextGroupId, audits, notifications,
                   req, opsLeft, faults, sessionVars>>

\* handleChange(event) as a function of the form and of event.target
Changed(data, name, value) ==
    LET set == [data EXCEPT ![name] = value] IN
    IF data.status = JStr(6) \/ (name = "status" /\ value = JStr(6))
    THEN IF name = "status" /\ value # JStr(6)
         THEN [set EXCEPT !.completed = JBool(FALSE)]
         ELSE [set EXCEPT !.completed = JBool(TRUE)]
    ELSE [set EXCEPT !.completed = JBool(FALSE)]

handleChange ==
    /\ \E input \in FormInputs : taskData' = Changed(taskData, input[1], input[2])
    /\ taskData' # taskData
    /\ UNCHANGED <<users, tasks, nextTaskId, groups, nextGroupId, audits, notifications,
                   req, opsLeft, faults, sessionVars, editingTask>>

\* the request body axios builds from taskData
BodyOf(data) ==
    [title |-> data.title, visibility |-> data.visibility, group |-> data.group,
     assigned_by |-> data.assigned_by, assigned_to |-> data.assigned_to,
     status |-> data.status, completed |-> data.completed]

\* handleSubmit: the checks, setTaskData (which shows in the form only after this
\* handler has run), then axios.put or axios.post of the taskData the handler closed
\* over.  The due-date check is left out: the date picker fills the field at any time.
handleSubmit(s) ==
    /\ ~(taskData.group = NoGroup /\ taskData.visibility = "group")
    /\ taskData.assigned_by # None
    /\ taskData.assigned_to # None
    /\ IF editingTask # 0
       THEN putTaskOf(s, FormUser, editingTask, BodyOf(taskData))
       ELSE postTaskOf(s, FormUser, BodyOf(taskData))
    /\ taskData' = [taskData EXCEPT !.completed = JBool(taskData.status = JStr(6))]
    /\ UNCHANGED editingTask

\* handleStatusChange(taskId, newStatus) of the status dropdown of a listed task
handleStatusChange(s) ==
    /\ \E id \in DOMAIN tasks, newStatus \in {JStr(3), JStr(6)} :
          putTaskOf(s, FormUser, id,
                    [title |-> Absent, visibility |-> Absent, group |-> NoGroup,
                     assigned_by |-> Absent, assigned_to |-> Absent,
                     status |-> newStatus,
                     completed |-> JBool(newStatus = JStr(6))])
    /\ UNCHANGED clientVars

(* ------------------------------------------------------------------ *)
(* Specification                                                        *)
(* ------------------------------------------------------------------ *)
\* one step of the server with at most Width handlers in flight
Step(Width, In) ==
    \E s \in 1..Width :
        \/ getTasks(s)
        \/ getTasks_find(s)
        \/ postTask(s, In)
        \/ putTask(s, In)
        \/ putTask_reread(s)
        \/ deleteTask(s, In)
        \/ deleteTask_delete(s)
        \/ handler_recordAudit(s)
        \/ handler_getUsersToNotify(s)
        \/ handler_sendNotifications(s)
        \/ postGroup(s, In)
        \/ putGroup(s, In)
        \/ putGroup_save(s)
        \/ deleteGroup(s, In)
        \/ deleteGroup_delete(s)
        \/ deleteGroup_cascade(s)
        \/ deleteGroup_respond(s)
        \/ getTaskAudit(s, In)
        \/ getTaskAudit_find(s)

\* requests handled one after the other
Next == Step(1, Wide)

Spec == Init /\ [][Next]_vars

\* requests that overlap: every await of a handler is a point where the other runs
InitConc ==
    /\ users = [u \in Users |-> UserDoc(u, u, Hash(Password))]
    /\ tasks = <<>>
    /\ nextTaskId = 1
    /\ groups = <<>>
    /\ nextGroupId = 1
    /\ audits = <<>>
    /\ notifications = <<>>
    /\ req = [s \in Slots |-> Idle]
    /\ opsLeft = MaxOpsConc
    /\ faults = 0
    /\ now = 0
    /\ tokens = {}
    /\ issued = <<>>
    /\ taskData = EmptyForm
    /\ editingTask = 0

NextConc == Step(2, Narrow)

SpecConc == InitConc /\ [][NextConc]_vars

\* the user routes, two requests at a time, and the clock
InitUsers ==
    /\ users = [u \in Users |-> UserDoc(u, u, Hash(Password))]
    /\ tasks = <<>>
    /\ nextTaskId = 1
    /\ groups = <<>>
    /\ nextGroupId = 1
    /\ audits = <<>>
    /\ notifications = <<>>
    /\ req = [s \in Slots |-> Idle]
    /\ opsLeft = MaxOpsUsers
    /\ faults = 0
    /\ now = 0
    /\ tokens = {}
    /\ issued = <<>>
    /\ taskData = EmptyForm
    /\ editingTask = 0

NextUsers ==
    \/ tick
    \/ \E s \in Slots :
          \/ unauthorized(s)
          \/ postSignup(s)
          \/ postSignup_save(s)
          \/ postSignup_mail(s)
          \/ postLogin(s)
          \/ putUser(s)
          \/ putUser_save(s)

SpecUsers == InitUsers /\ [][NextUsers]_vars

\* the inbox: logins, task creation behind the gate, and the notification routes,
\* one request at a time
InboxIn ==
    [callers |-> Authenticated, titles |-> {"A"}, visibilities |-> {"private"},
     groups |-> {NoGroup}, assigned_by |-> {None}, assigned_to |-> {"u2", "u3"},
     members |-> {{"u1", "u4"}}, names |-> {"G"},
     statuses |-> {JUndef}, completed |-> {JUndef}]

InitInbox ==
    /\ users = [u \in Users |-> UserDoc(u, u, Hash(Password))]
    /\ tasks = <<>>
    /\ nextTaskId = 1
    /\ groups = <<>>
    /\ nextGroupId = 1
    /\ audits = <<>>
    /\ notifications = <<>>
    /\ req = [s \in Slots |-> Idle]
    /\ opsLeft = MaxOpsInbox
    /\ faults = 0
    /\ now = 0
    /\ tokens = {}
    /\ issued = <<>>
    /\ taskData = EmptyForm
    /\ editingTask = 0

NextInbox ==
    \/ tick
    \/ \E s \in {1} :
          \/ unauthorized(s)
          \/ postLogin(s)
          \/ postTask(s, InboxIn)
          \/ handler_recordAudit(s)
          \/ handler_getUsersToNotify(s)
          \/ handler_sendNotifications(s)
          \/ getNotifications(s)
          \/ markRead(s)
          \/ markAllRead(s)

SpecInbox == InitInbox /\ [][NextInbox]_vars

\* one browser working the task form and the status dropdown against the server
InitForm ==
    /\ users = [u \in Users |-> UserDoc(u, u, Hash(Password))]
    /\ tasks = <<>>
    /\ nextTaskId = 1
    /\ groups = <<>>
    /\ nextGroupId = 1
    /\ audits = <<>>
    /\ notifications = <<>>
    /\ req = [s \in Slots |-> Idle]
    /\ opsLeft = MaxOpsForm
    /\ faults = 0
    /\ now = 0
    /\ tokens = {}
    /\ issued = <<>>
    /\ taskData = EmptyForm
    /\ editingTask = 0

NextForm ==
    \/ handleEdit
    \/ handleClose
    \/ handleChange
    \/ \E s \in {1} :
          \/ handleSubmit(s)
          \/ handleStatusChange(s)
          \/ putTask_reread(s)
          \/ handler_recordAudit(s)
          \/ handler_getUsersToNotify(s)
          \/ handler_sendNotifications(s)

SpecForm == InitForm /\ [][NextForm]_vars

\* one user creating a group and a task, editing the task and deleting the group, one
\* request after the other
CascadeIn ==
    [callers |-> {"u2"}, titles |-> {"A"}, visibilities |-> Visibilities,
     groups |-> {NoGroup} \cup GroupIds, assigned_by |-> {None},
     assigned_to |-> {"u3"},
     members |-> {{"u1", "u4"}}, names |-> {"G"},
     statuses |-> {JUndef}, completed |-> {JUndef}]

InitCascade ==
    /\ users = [u \in Users |-> UserDoc(u, u, Hash(Password))]
    /\ tasks = <<>>
    /\ nextTaskId = 1
    /\ groups = <<>>
    /\ nextGroupId = 1
    /\ audits = <<>>
    /\ notifications = <<>>
    /\ req = [s \in Slots |-> Idle]
    /\ opsLeft = MaxOpsCascade
    /\ faults = 0
    /\ now = 0
    /\ tokens = {}
    /\ issued = <<>>
    /\ taskData = EmptyForm
    /\ editingTask = 0

NextCascade ==
    \E s \in {1} :
        \/ postTask(s, CascadeIn)
        \/ putTask(s, CascadeIn)
        \/ putTask_reread(s)
        \/ handler_recordAudit(s)
        \/ handler_getUsersToNotify(s)
        \/ handler_sendNotifications(s)
        \/ postGroup(s, CascadeIn)
        \/ deleteGroup(s, CascadeIn)
        \/ deleteGroup_delete(s)
        \/ deleteGroup_cascade(s)
        \/ deleteGroup_respond(s)

SpecCascade == InitCascade /\ [][NextCascade]_vars

\* the two password-reset routes, two requests at a time, and the clock
InitReset ==
    /\ users = [u \in Users |-> UserDoc(u, u, Hash(Password))]
    /\ tasks = <<>>
    /\ nextTaskId = 1
    /\ groups = <<>>
    /\ nextGroupId = 1
    /\ audits = <<>>
    /\ notifications = <<>>
    /\ req = [s \in Slots |-> Idle]
    /\ opsLeft = MaxOpsReset
    /\ faults = 0
    /\ now = 0
    /\ tokens = {}
    /\ issued = <<>>
    /\ taskData = EmptyForm
    /\ editingTask = 0

NextReset ==
    \/ tick
    \/ \E s \in Slots :
          \/ postForgotPassword(s)
          \/ postForgotPassword_save(s)
          \/ postForgotPassword_mail(s)
          \/ postResetPassword(s)
          \/ postResetPassword_save(s)

SpecReset == InitReset /\ [][NextReset]_vars

(* ================================================================== *)
(* Properties                                                           *)
(* ================================================================== *)
\* the current member list of group g (empty when the group is gone)
MembersOf(g) == IF Exists(groups, g) THEN groups[g].members ELSE {}

\* U is the task's owner, assigner or assignee
Related(t, U) == U = t.owner \/ U = t.assigned_by \/ U = t.assigned_to

\* what GET /api/tasks computes for U on the current collections
ListVisible(U) == FindTasks(tasks, GroupsOfMember(groups, U), U)

\* slot s holds an answered GET /api/tasks
Listed(s) == req[s].kind = "getTasks" /\ req[s].pc = "done" /\ req[s].status = 200

\* C1: a stored task with visibility 'group' and group G is returned by GET /api/tasks
\* to user U iff U is in G's current member list or U is the task's owner, assigner or
\* assignee; G's owner alone does not get it.  Stated of the filter on every reachable
\* store and of every answer a GET gave.
C1_GroupTaskVisibleIff ==
    \A i \in DOMAIN tasks :
        tasks[i].visibility = "group" /\ tasks[i].group # NoGroup =>
            /\ \A U \in Users :
                  i \in ListVisible(U) <=>
                      (U \in MembersOf(tasks[i].group) \/ Related(tasks[i], U))
            /\ \A s \in Slots :
                  Listed(s) =>
                      (i \in req[s].found <=>
                          (req[s].caller \in MembersOf(tasks[i].group)
                              \/ Related(tasks[i], req[s].caller)))

\* C1 witness: the owner of G, not a member and not related to the group task, has
\* listed the tasks and did not get it, while some member of G would get it
C1_Witness ==
    \E s \in Slots, i \in DOMAIN tasks :
        /\ Listed(s)
        /\ tasks[i].visibility = "group" /\ Exists(groups, tasks[i].group)
        /\ groups[tasks[i].group].owner = req[s].caller
        /\ req[s].caller \notin groups[tasks[i].group].members
        /\ ~Related(tasks[i], req[s].caller)
        /\ i \notin req[s].found
        /\ \E U \in groups[tasks[i].group].members :
              ~Related(tasks[i], U) /\ i \in ListVisible(U)

\* C2: a stored task with visibility 'private' is returned by GET /api/tasks to U iff
\* U is its owner, assigner or assignee, whatever group the task still references
C2_PrivateTaskVisibleIff ==
    \A i \in DOMAIN tasks :
        tasks[i].visibility = "private" =>
            /\ \A U \in Users : i \in ListVisible(U) <=> Related(tasks[i], U)
            /\ \A s \in Slots :
                  Listed(s) => (i \in req[s].found <=> Related(tasks[i], req[s].caller))

\* C2 witness: a member of the group a private task references has listed the tasks
\* and did not get the task; its assigner would
C2_Witness ==
    \E s \in Slots, i \in DOMAIN tasks :
        /\ Listed(s)
        /\ tasks[i].visibility = "private"
        /\ req[s].caller \in MembersOf(tasks[i].group)
        /\ ~Related(tasks[i], req[s].caller)
        /\ i \notin req[s].found
        /\ Truthy(tasks[i].assigned_by) /\ i \in ListVisible(tasks[i].assigned_by)

TaskKinds == {"postTask", "putTask", "deleteTask"}

\* slot s holds an answered task request
Answered(s) == req[s].pc = "done" /\ req[s].kind \in TaskKinds

\* ... answered with the handler's normal success response
Succeeded(s) == Answered(s) /\ req[s].status = SuccessStatus(req[s].kind)

\* how many documents of the sequence are addressed to user u
CountFor(docs, u) == Cardinality({i \in 1..Len(docs) : docs[i].userId = u})

\* the stored notifications of a task and type, in insertion order
StoredFor(taskId, type) ==
    SelectSeq(notifications, LAMBDA n : n.taskId = taskId /\ n.type = type)

\* the scenario of C3: assignee U1, owner U2 # U1, visibility 'group', the group exists
\* and neither U1 nor U2 is one of its members
FanOutCase(t) ==
    /\ IsObjectId(t.assigned_to) /\ t.owner # t.assigned_to
    /\ t.visibility = "group" /\ Exists(groups, t.group)
    /\ t.assigned_to \notin groups[t.group].members
    /\ t.owner \notin groups[t.group].members

\* C3: creating a task with assignee U1, owner U2 # U1, visibility 'group' and group G
\* with members {U3, U4} (four different users) inserts one notification for each of
\* U1, U2, U3, U4 and for nobody else, all with the same message, the task's id, type
\* 'assignment' and read = false
C3_CreateFanOut ==
    \A s \in Slots :
        req[s].kind = "postTask" /\ Succeeded(s) /\ FanOutCase(req[s].doc) =>
            LET t == req[s].doc
                R == {t.assigned_to, t.owner} \cup groups[t.group].members
                B == req[s].batch
            IN  /\ \A u \in Users : CountFor(B, u) = IF u \in R THEN 1 ELSE 0
                /\ \A i \in 1..Len(B) :
                      /\ B[i].message = <<users[t.owner].name, "assignment", t.title,
                                          users[t.assigned_to].name>>
                      /\ B[i].taskId = t.id
                      /\ B[i].type = "assignment"
                      /\ B[i].read = FALSE
                /\ StoredFor(t.id, "assignment") = B

\* C3 witness: a create of that scenario with a two-member group was answered 201
C3_Witness ==
    \E s \in Slots :
        /\ req[s].kind = "postTask" /\ Succeeded(s) /\ FanOutCase(req[s].doc)
        /\ Cardinality(groups[req[s].doc.group].members) = 2
        /\ Len(req[s].batch) = 4

\* C4 (as claimed): no user receives more than one notification record for one task
\* create, update or delete
C4_RecipientsFormSet ==
    \A s \in Slots : Succeeded(s) => \A u \in Users : CountFor(req[s].batch, u) <= 1

AuditsFor(taskId, action) ==
    SelectSeq(audits, LAMBDA a : a.taskId = taskId /\ a.action = action)

\* C6 (as claimed): an update that changes the stored title from A to B writes an
\* 'update' audit record whose changes holds title = B, and group only when the group
\* changed
C6_UpdateAuditHasTitle ==
    \A s \in Slots :
        req[s].kind = "putTask" /\ Succeeded(s) /\ ~req[s].auditFailed
            /\ req[s].before.title # req[s].doc.title =>
                /\ req[s].audit.action = "update"
                /\ req[s].audit.changes.hasTitle
                /\ req[s].audit.changes.title = req[s].doc.title
                /\ req[s].audit.changes.hasGroup <=>
                       req[s].before.group # req[s].doc.group

\* C7 (as claimed): a create answered 201 always left exactly one 'create' audit record
\* for the new task, by the caller, holding the saved task
C7_CreateAlwaysAudited ==
    \A s \in Slots :
        req[s].kind = "postTask" /\ Succeeded(s) =>
            AuditsFor(req[s].id, "create")
                = <<AuditDoc(req[s].id, "create", req[s].caller, req[s].doc)>>

\* the create in slot s is past its recordAudit call
PastAudit(s) == req[s].kind = "postTask" /\ req[s].pc \in {"resolve", "send", "done"}

C7_State ==
    /\ \A id \in TaskIds : Len(AuditsFor(id, "create")) <= 1
    /\ \A s \in Slots :
          PastAudit(s) =>
              AuditsFor(req[s].id, "create") =
                  IF req[s].auditFailed THEN <<>>
                  ELSE <<AuditDoc(req[s].id, "create", req[s].caller, req[s].doc)>>

C7_Step ==
    \A s \in Slots :
        (req[s].kind = "postTask" \/ req'[s].kind = "postTask") /\ req'[s] # req[s] =>
            \/ audits' = audits
            \/ /\ req[s].pc = "audit"
               /\ audits' = Append(audits, AuditDoc(req[s].id, "create", req[s].caller,
                                                    req[s].doc))

\* C7 (amended): a create leaves exactly one 'create' audit record for the new task,
\* with changedBy the caller and changes the full saved task, unless the audit save
\* fails, and then it leaves none; no step of the create writes any other audit record
C7_CreateAuditedUnlessSaveFails == []C7_State /\ [][C7_Step]_vars

\* C7 witness: a create was answered 201 and its one audit record is stored
C7_Witness ==
    \E s \in Slots :
        /\ req[s].kind = "postTask" /\ Succeeded(s) /\ ~req[s].auditFailed
        /\ Len(AuditsFor(req[s].id, "create")) = 1
        /\ Len(audits) = 1

\* C8 (as claimed): under every interleaving, store failures aside, a task has at most
\* one 'delete' audit record, and a delete answered 200 left exactly one, holding the
\* task's fields as they were read
C8_OneDeleteAudit ==
    faults = 0 =>
    /\ \A id \in TaskIds : Len(AuditsFor(id, "delete")) <= 1
    /\ \A s \in Slots :
          req[s].kind = "deleteTask" /\ Succeeded(s) =>
              AuditsFor(req[s].id, "delete")
                  = <<AuditDoc(req[s].id, "delete", req[s].caller,
                               DeleteSnapshot(req[s].doc))>>

\* C9 (as claimed): a task request whose notification step failed is still answered with
\* the normal success status
C9_NotifyFailureNotSurfaced ==
    \A s \in Slots :
        Answered(s) /\ req[s].notifyFailed => req[s].status = SuccessStatus(req[s].kind)

\* the mutation of the request in slot s is in the task store
Applied(s) ==
    IF req[s].kind = "deleteTask" THEN ~Exists(tasks, req[s].id)
    ELSE Exists(tasks, req[s].id) /\ tasks[req[s].id] = req[s].doc

\* the batch of slot s is the tail of the notification collection
Inserted(s) ==
    LET n == Len(notifications)
        k == Len(req[s].batch)
    IN  k <= n /\ SubSeq(notifications, n - k + 1, n) = req[s].batch

\* C10 (as claimed): a failed audit save is swallowed: a create or update stays applied,
\* the handler goes on to the notification step, and the request ends with its success
\* status, its mutation applied and its notifications inserted (a delete whose own
\* store call failed aside)
C10_AuditFailureSwallowed ==
    \A s \in Slots :
        req[s].kind \in TaskKinds /\ req[s].auditFailed /\ ~req[s].storeFailed =>
            /\ req[s].audit = NoDoc
            /\ req[s].kind # "deleteTask" => Applied(s)
            /\ req[s].pc = "done" => Succeeded(s) /\ Applied(s) /\ Inserted(s)

\* a request of the given kind starts in slot s with this step
Starts(s, kind) == Accepts(s) /\ opsLeft' < opsLeft /\ req'[s].kind = kind

\* the step leaves the task and group collections as they are
StoresKept == tasks' = tasks /\ groups' = groups

C13_Step ==
    \A s \in Slots :
        /\ Starts(s, "deleteGroup")
        /\ Exists(groups, req'[s].id)
        /\ groups[req'[s].id].owner # req'[s].caller
        => req'[s].pc = "done" /\ req'[s].status = 403 /\ StoresKept

\* C13: DELETE /api/groups/:id by an authenticated user who is not the group's current
\* owner is answered 403 at once and leaves the group and every task as they were
C13_NonOwnerDeleteForbidden == [][C13_Step]_vars

\* C13 witness: a non-owner's delete was answered 403; the group and a task of the
\* group are still stored
C13_Witness ==
    \E s \in Slots, i \in DOMAIN tasks :
        /\ req[s].kind = "deleteGroup" /\ req[s].pc = "done" /\ req[s].status = 403
        /\ Exists(groups, req[s].id) /\ groups[req[s].id].owner # req[s].caller
        /\ tasks[i].group = req[s].id

\* some stored task references group g
Referenced(tsks, g) == \E i \in DOMAIN tsks : tsks[i].group = g

C14_Step ==
    \A s \in Slots :
        /\ req[s].kind = "deleteGroup" /\ req[s].pc # "done"
        /\ req'[s].kind = "deleteGroup" /\ req'[s].pc = "done" /\ req'[s].status = 200
        => ~Exists(groups', req[s].id) /\ ~Referenced(tasks', req[s].id)

\* C14 (as claimed): when the owner's DELETE /api/groups/:id is answered 200 the group
\* is gone and no stored task references it, whatever task requests run alongside
C14_CascadeLeavesNoTask == [][C14_Step]_vars

\* the handler in slot s is about to save the group it loaded as its owner
SavingGroup(s, g) == req[s].kind = "putGroup" /\ req[s].pc = "gsave" /\ req[s].id = g

\* a stored group changes only in the save of a PUT whose caller owns it
C17_OnlyOwnerWrites ==
    \A g \in DOMAIN groups \cap DOMAIN groups' :
        groups'[g] # groups[g] =>
            \E s \in Slots :
                /\ SavingGroup(s, g) /\ req[s].caller = groups[g].owner
                /\ req'[s].pc = "done" /\ req'[s].status = 200

\* a PUT or DELETE on a stored group is let through exactly when its caller is the
\* owner the store holds at that moment, and is answered 403 otherwise
C17_OwnerGate ==
    \A s \in Slots :
        (Starts(s, "putGroup") \/ Starts(s, "deleteGroup")) /\ Exists(groups, req'[s].id) =>
            IF groups[req'[s].id].owner = req'[s].caller
            THEN req'[s].pc = (IF req'[s].kind = "putGroup" THEN "gsave" ELSE "gdelete")
            ELSE req'[s].pc = "done" /\ req'[s].status = 403 /\ StoresKept

\* C17: a group's name, members and owner change only through PUT /api/groups/:id by
\* the group's current owner; any other caller gets 403 with the group unchanged, and
\* after a transfer of ownership it is the new owner who is let through and the
\* previous one who gets 403 (requests handled one after the other)
C17_GroupMutatedOnlyByOwner == [][C17_OnlyOwnerWrites /\ C17_OwnerGate]_vars

\* C17 witness: the group has been renamed by an update, and an update by a caller who
\* is not (or no longer) its owner was answered 403
C17_Witness ==
    \E s \in Slots :
        /\ req[s].kind = "putGroup" /\ req[s].pc = "done" /\ req[s].status = 403
        /\ Exists(groups, req[s].id)
        /\ groups[req[s].id].name = "H"
        /\ groups[req[s].id].owner # req[s].caller
        /\ req[s].caller \in groups[req[s].id].members

\* the handlers that look a task up by the id of the request
ByTaskId == {"putTask", "deleteTask", "getTaskAudit"}

C19_Step ==
    \A s \in Slots, kind \in ByTaskId :
        Starts(s, kind) /\ ~Exists(tasks, req'[s].id) =>
            /\ req'[s].pc = "done" /\ req'[s].status = 404
            /\ StoresKept
            /\ audits' = audits /\ notifications' = notifications

\* C19: PUT /api/tasks/:id, DELETE /api/tasks/:id and GET /api/tasks/:id/audit on the
\* id of no stored task are answered 404 at once: no audit record, no notification,
\* no change of a task or group
C19_NotFoundNoSideEffects == [][C19_Step]_vars

\* C19 witness: a task was created and deleted, and a further request on its id was
\* answered 404 with the audit trail and the notifications of the two still there
C19_Witness ==
    \E s \in Slots :
        /\ req[s].kind \in ByTaskId /\ req[s].pc = "done" /\ req[s].status = 404
        /\ ~Exists(tasks, req[s].id)
        /\ Len(AuditsFor(req[s].id, "create")) = 1
        /\ Len(AuditsFor(req[s].id, "delete")) = 1
        /\ Len(audits) = 2
        /\ notifications # <<>>

C20_Step == Len(audits') >= Len(audits) /\ SubSeq(audits', 1, Len(audits)) = audits

\* C20: audit records are append-only: every step leaves the records already written in
\* place with their taskId, action, changedBy and changes, also the steps that delete
\* the task or cascade from the deletion of its group
C20_AuditsAppendOnly == [][C20_Step]_vars

\* C20 witness: the owner's group deletion was answered 200 and took a task with it,
\* and the task's 'create' audit record is still stored
C20_Witness ==
    \E s \in Slots, k \in 1..Len(audits) :
        /\ req[s].kind = "deleteGroup" /\ req[s].pc = "done" /\ req[s].status = 200
        /\ audits[k].action = "create"
        /\ audits[k].changes.group = req[s].id
        /\ ~Exists(tasks, audits[k].taskId)

\* C11 (as claimed): every token authMiddleware let through was issued less than one
\* hour before the request, whether a login or a signup issued it
C11_AcceptedTokensUnderOneHour ==
    \A s \in Slots :
        req[s].kind = "putUser" /\ req[s].status # 401 =>
            /\ req[s].cookie \in tokens
            /\ req[s].at - req[s].cookie.iat < Hour

\* no two stored users share a username
UsernamesUnique ==
    \A a \in DOMAIN users, b \in DOMAIN users : a # b => users[a].username # users[b].username

\* some user other than id holds the username
Taken(username, id) == FindByUsername(users, username) \ {id} # {}

C18_Step ==
    \A s \in Slots :
        /\ Starts(s, "postSignup") /\ req'[s].pc = "done" => users' = users
        /\ req[s].kind = "postSignup" /\ req[s].pc = "usersave"
              /\ req'[s] # req[s] /\ Taken(req[s].body.username, None) =>
                  req'[s].pc = "done" /\ req'[s].status = 500 /\ users' = users
        /\ req[s].kind = "putUser" /\ req[s].pc = "profile" /\ req'[s] # req[s]
              /\ req[s].body.username # req[s].doc.username
              /\ Taken(req[s].body.username, req[s].caller) =>
                  req'[s].pc = "done" /\ req'[s].status = 500 /\ users' = users

\* C18: no two user records ever share a username, however signups and profile edits
\* interleave; a signup or edit that would make a duplicate fails and leaves the user
\* store as it was
C18_UsernamesStayUnique == []UsernamesUnique /\ [][C18_Step]_vars

\* C18 witness: two signups with the same new username both passed the findOne check;
\* one was stored and the other failed in its save
C18_Witness ==
    \E s \in Slots, t \in Slots, id \in DOMAIN users :
        /\ s # t
        /\ req[s].kind = "postSignup" /\ req[s].storeFailed /\ req[s].status = 500
        /\ req[t].kind = "postSignup" /\ req[t].caller = id
        /\ users[id].username = "n"
        /\ Cardinality(DOMAIN users) = Cardinality(Users) + 1

\* the routes the spec leaves open to requests without a session
Exempt == {"postSignup", "postLogin"}

\* the request carries a session authMiddleware accepts at this moment
HasSession(r) == r.caller \in Authenticated \/ authMiddleware(r.cookie, now).ok

C12_Step ==
    \A s \in Slots :
        /\ Accepts(s) /\ opsLeft' < opsLeft
        /\ req'[s].kind \notin Exempt
        /\ ~HasSession(req'[s])
        => /\ StoresKept
           /\ audits' = audits /\ notifications' = notifications
           /\ req'[s].kind \in GatedRoutes => req'[s].pc = "done" /\ req'[s].status = 401

\* C12 (as claimed): a request without a valid session token, on any route but signup
\* and login, changes no task, group, audit record or notification (the routes behind
\* authMiddleware answer it 401)
C12_NoSessionNoChange == [][C12_Step]_vars

C16_Step ==
    \A s \in Slots :
        Starts(s, "markAllRead") /\ req'[s].status = 200 =>
            /\ Len(notifications') = Len(notifications)
            /\ \A k \in 1..Len(notifications) :
                  notifications'[k] =
                      IF notifications[k].userId = req'[s].caller
                      THEN [notifications[k] EXCEPT !.read = TRUE]
                      ELSE notifications[k]

\* C16: marking all notifications read for user U sets read on every notification of
\* U (the unread ones change, nothing else of them does) and leaves every notification
\* of any other user as it was
C16_MarkAllReadOnlyOwn == [][C16_Step]_vars

\* C16 witness: U's mark-all-read was answered; U's notification is read and another
\* user's notification of the same event is still unread
C16_Witness ==
    \E s \in Slots, j \in 1..Len(notifications), k \in 1..Len(notifications) :
        /\ req[s].kind = "markAllRead" /\ req[s].pc = "done" /\ req[s].status = 200
        /\ notifications[j].userId = req[s].caller /\ notifications[j].read
        /\ notifications[k].userId # req[s].caller /\ ~notifications[k].read

\* C15 (as claimed): every stored task written through the form, the status dropdown
\* and the create and update endpoints has completed = true exactly when its status
\* is 6
C15_CompletedIffStatusSix ==
    \A i \in DOMAIN tasks : tasks[i].completed <=> tasks[i].status = 6

C21_Step ==
    \A s \in Slots :
        req[s].kind = "getTasks" /\ req[s].pc = "find" /\ req'[s].pc = "done" =>
            /\ req'[s].status = 200
            /\ \A i \in DOMAIN tasks : tasks[i].visibility = "public" => i \in req'[s].found

\* C21: every stored task with visibility 'public' is returned by GET /api/tasks to
\* every authenticated user: the filter finds it for every user on every reachable
\* store, and every answer of a GET holds the public tasks stored when it was computed
C21_PublicVisibleToAll ==
    /\ [](\A i \in DOMAIN tasks :
             tasks[i].visibility = "public" => \A U \in Users : i \in ListVisible(U))
    /\ [][C21_Step]_vars

\* C21 witness: a user who is not related to a public task, and no member of the group
\* it references, has listed the tasks and got it
C21_Witness ==
    \E s \in Slots, i \in DOMAIN tasks :
        /\ Listed(s)
        /\ tasks[i].visibility = "public"
        /\ ~Related(tasks[i], req[s].caller)
        /\ Exists(groups, tasks[i].group)
        /\ req[s].caller \notin MembersOf(tasks[i].group)
        /\ i \in req[s].found

C22_Step ==
    \A s \in Slots :
        Starts(s, "markRead") =>
            LET id == req'[s].id IN
            /\ req'[s].pc = "done" /\ req'[s].status = 204
            /\ Len(notifications') = Len(notifications)
            /\ \A k \in 1..Len(notifications) :
                  notifications'[k] = IF k = id THEN [notifications[k] EXCEPT !.read = TRUE]
                                      ELSE notifications[k]
            /\ id \notin 1..Len(notifications) => notifications' = notifications
            /\ id \in 1..Len(notifications) /\ notifications[id].read =>
                  notifications' = notifications
            /\ MarkRead(notifications', id) = notifications'

\* C22: PUT /api/notifications/:id/read is idempotent: it sets read on that notification
\* and changes nothing else of it or of any other notification, so applying it to its
\* own result (or to a notification already read) changes nothing; on an id of no
\* notification it changes nothing; it answers 204 in each case
C22_MarkReadIdempotent == [][C22_Step]_vars

\* C22 witness: the request was applied to a notification that was already read and
\* left it as it was, with another notification still unread
C22_Witness ==
    \E s \in Slots, k \in 1..Len(notifications) :
        /\ req[s].kind = "markRead" /\ req[s].pc = "done" /\ req[s].status = 204
        /\ req[s].id \in 1..Len(notifications)
        /\ req[s].before = notifications[req[s].id] /\ req[s].before.read
        /\ ~notifications[k].read

\* C23 (as claimed): an audit record is written only after its mutation has succeeded
\* in the task store: whenever a 'delete' audit record for a task exists, the task is
\* no longer stored
C23_DeleteAuditAfterRemoval ==
    \A id \in TaskIds : AuditsFor(id, "delete") # <<>> => ~Exists(tasks, id)

\* C24 (as claimed): every PUT /api/tasks/:id whose store write was applied is answered
\* 200 with the updated task and, store failures aside, has written one 'update' audit
\* record and inserted its notification batch, whatever requests on the same task run
\* alongside
C24_AppliedUpdateAnswered ==
    faults = 0 =>
    \A s \in Slots :
        req[s].kind = "putTask" /\ req[s].pc = "done" /\ req[s].before # NoDoc =>
            /\ req[s].status = 200
            /\ req[s].audit # NoDoc
            /\ req[s].audit = AuditDoc(req[s].id, "update", req[s].caller,
                                       req[s].audit.changes)
            /\ ~req[s].notifyFailed

\* the handler in slot t is a PUT /api/tasks/:id of task id whose store write has been
\* applied and which has not answered yet
Updating(t, id) ==
    req[t].kind = "putTask" /\ req[t].id = id /\ ~Free(t) /\ req[t].before # NoDoc

\* an update arriving while another update of the task is in flight is applied on top
\* of what is stored, and the later steps of an update leave the stored task alone
C25_Step ==
    \A s \in Slots :
        /\ \A t \in Slots \ {s} :
              Starts(s, "putTask") /\ Updating(t, req'[s].id) /\ Exists(tasks, req'[s].id) =>
                  /\ req'[s].pc = "reread" /\ req'[s].status = 0
                  /\ req'[s].before = tasks[req'[s].id]
                  /\ tasks' = With(tasks, req'[s].id, req'[s].doc)
        /\ Updating(s, req[s].id) /\ req'[s] # req[s] => tasks' = tasks

\* two updates of one task, both applied: the stored task is the document one of them
\* wrote; each that has answered was answered 200 (unless the task has been deleted
\* since) and has its own audit record and its own notification batch
C25_State ==
    faults = 0 =>
    \A s \in Slots, t \in Slots :
        /\ s # t
        /\ req[s].kind = "putTask" /\ req[s].before # NoDoc
        /\ req[t].kind = "putTask" /\ req[t].before # NoDoc /\ req[t].id = req[s].id
        /\ Exists(tasks, req[s].id)
        => /\ tasks[req[s].id] \in {req[s].doc, req[t].doc}
           /\ req[s].pc = "done" =>
                 /\ req[s].status = 200
                 /\ req[s].audit # NoDoc
                 /\ req[s].audit = AuditDoc(req[s].id, "update", req[s].caller,
                                            req[s].audit.changes)
                 /\ \E k \in 1..Len(audits) : audits[k] = req[s].audit
                 /\ ~req[s].notifyFailed
                 /\ \A k \in 1..Len(req[s].batch) :
                       req[s].batch[k] \in Range(notifications)

\* C25: two update requests for the same task that interleave are not checked against
\* each other: the second write is applied over the first (the stored value is that of
\* the write applied last), both are answered 200, and each writes its own audit record
\* and notification batch (store failures and a deletion of the task aside)
C25_LastWriteWins == []C25_State /\ [][C25_Step]_vars

\* C25 witness: two updates of the title overlapped and both were answered 200; the
\* first writer's re-read saw the second writer's title, which is the stored one
C25_Witness ==
    \E s \in Slots, t \in Slots :
        /\ s # t
        /\ req[s].kind = "putTask" /\ req[s].pc = "done" /\ req[s].status = 200
        /\ req[t].kind = "putTask" /\ req[t].pc = "done" /\ req[t].status = 200
        /\ req[t].id = req[s].id /\ Exists(tasks, req[s].id)
        /\ req[s].audit # NoDoc /\ req[t].audit # NoDoc
        /\ req[s].audit.changes.hasTitle
        /\ req[s].doc.title # req[t].doc.title
        /\ tasks[req[s].id].title = req[t].doc.title
        /\ req[t].batch # <<>>

\* the positions of the audit records of a task in the collection
AuditPositions(id) == {k \in 1..Len(audits) : audits[k].taskId = id}

C26_Step ==
    \A s \in Slots :
        /\ Starts(s, "getTaskAudit") /\ Exists(tasks, req'[s].id) =>
              req'[s].pc = "logs" /\ req'[s].status = 0
        /\ req[s].kind = "getTaskAudit" /\ req[s].pc = "logs" /\ req'[s].pc = "done" =>
              /\ req'[s].status = 200
              /\ Len(req'[s].logs) = Cardinality(AuditPositions(req[s].id))
              /\ \A k \in AuditPositions(req[s].id) :
                    \E j \in 1..Len(req'[s].logs) :
                        /\ req'[s].logs[j].action = audits[k].action
                        /\ req'[s].logs[j].changes = audits[k].changes
                        /\ req'[s].logs[j].taskId = req[s].id

C27_Step ==
    /\ \A i \in DOMAIN tasks \cap DOMAIN tasks' :
          tasks[i].group # NoGroup => tasks'[i].group # NoGroup
    /\ \A s \in Slots :
          req[s].kind = "deleteGroup" /\ req[s].pc = "cascade" /\ req'[s] # req[s] =>
              /\ DOMAIN tasks' = {i \in DOMAIN tasks : tasks[i].group # req[s].id}
              /\ \A i \in DOMAIN tasks' : tasks'[i] = tasks[i]
              /\ audits' = audits
              /\ notifications' = notifications
    /\ \A s \in Slots :
          req'[s].kind = "deleteGroup" /\ req'[s] # req[s] =>
              audits' = audits /\ notifications' = notifications

\* C27: no step clears the group reference of a stored task (an update writes group
\* only when the body carries a truthy one), and the cascade of a group deletion removes
\* exactly the tasks whose group field references the group, whatever their visibility,
\* writing no audit record and no notification
C27_CascadeByReference == [][C27_Step]_vars

\* C27 witness: a task created with visibility 'group' in the group was updated when it
\* was no longer shared with the group (the update notified the assignee but no
\* member), and the group's deletion, answered 200, removed it; the only audit records
\* are those of the create and the update and no 'deleted' notification exists
C27_Witness ==
    \E s \in Slots, i \in TaskIds :
        /\ req[s].kind = "deleteGroup" /\ req[s].pc = "done" /\ req[s].status = 200
        /\ ~Exists(tasks, i)
        /\ Len(audits) = 2
        /\ audits[1].taskId = i /\ audits[1].action = "create"
        /\ audits[1].changes.visibility = "group"
        /\ audits[1].changes.group = req[s].id
        /\ audits[2].taskId = i /\ audits[2].action = "update"
        /\ CountFor(StoredFor(i, "assignment"), "u1") = 1
        /\ CountFor(StoredFor(i, "update"), "u1") = 0
        /\ CountFor(StoredFor(i, "update"), "u3") = 1
        /\ StoredFor(i, "deleted") = <<>>

\* C28 (as claimed): when recipient resolution throws, the recipient list is empty, no
\* notification is created for the event, and the task request still ends with its
\* success status (store failures aside)
C28_ResolutionFailureSwallowed ==
    faults = 0 =>
    \A s \in Slots :
        req[s].kind \in TaskKinds /\ req[s].resolveFailed =>
            /\ req[s].recipients = <<>>
            /\ req[s].batch = <<>>
            /\ req[s].pc = "done" => Succeeded(s)

\* the task with this id was stored once and is stored no longer
Deleted(id) == id < nextTaskId /\ ~Exists(tasks, id)

C29_Step ==
    /\ \A id \in TaskIds : Deleted(id) => Deleted(id)'
    /\ \A id \in TaskIds : Deleted(id) => SubSeq(audits', 1, Len(audits)) = audits
    /\ \A s \in Slots :
          Starts(s, "getTaskAudit") /\ Deleted(req'[s].id) =>
              /\ req'[s].pc = "done" /\ req'[s].status = 404
              /\ req'[s].logs = <<>>

\* C29: a deleted task stays deleted, and from then on every GET /api/tasks/:id/audit
\* for it is answered 404 without any record, while its audit records, the 'delete'
\* record among them, stay in the store
C29_DeletedTaskAuditHidden == [][C29_Step]_vars

\* C29 witness: the audit trail of a deleted task was asked for and answered 404 while
\* the task's 'create' and 'delete' records are stored
C29_Witness ==
    \E s \in Slots :
        /\ req[s].kind = "getTaskAudit" /\ req[s].pc = "done" /\ req[s].status = 404
        /\ Deleted(req[s].id)
        /\ req[s].logs = <<>>
        /\ \E k \in 1..Len(audits) :
              audits[k].taskId = req[s].id /\ audits[k].action = "delete"
        /\ \E k \in 1..Len(audits) :
              audits[k].taskId = req[s].id /\ audits[k].action = "create"

\* the users that hold the token as their stored resetToken
Holders(token) == {u \in DOMAIN users : token # NoToken /\ users[u].resetToken = token}

\* every stored reset token is one the server generated, held by one user only, with
\* the expiration set an hour after it was generated; token and expiration are set
\* and unset together
C30_State ==
    \A u \in DOMAIN users :
        IF users[u].resetToken = NoToken THEN users[u].resetTokenExpiration = NoDate
        ELSE /\ \E n \in 1..Len(issued) :
                   /\ users[u].resetToken = ResetToken(n)
                   /\ users[u].resetTokenExpiration = issued[n] + Hour
             /\ Holders(users[u].resetToken) = {u}

C30_Step ==
    /\ \A s \in Slots :
          Starts(s, "postResetPassword") =>
              LET token == req'[s].token IN
              IF Holders(token) # {} /\ now - issued[token[2]] < Hour
              THEN /\ req'[s].pc = "pwsave" /\ req'[s].caller \in Holders(token)
                   /\ users' = users
              ELSE /\ req'[s].pc = "done" /\ req'[s].status = 400
                   /\ users' = users
    /\ \A s \in Slots :
          req[s].kind = "postResetPassword" /\ req[s].pc = "pwsave" /\ req'[s] # req[s] =>
              /\ req'[s].pc = "done" /\ req'[s].status = 200
              /\ users'[req[s].caller] =
                     [users[req[s].caller] EXCEPT !.password = Hash(req[s].body.password),
                                                  !.resetToken = NoToken,
                                                  !.resetTokenExpiration = NoDate]
              /\ \A u \in DOMAIN users' :
                    /\ users'[u].resetToken # req[s].token
                    /\ u # req[s].caller => users'[u] = users[u]
    /\ \A s \in Slots :
          req[s].kind = "postForgotPassword" /\ req[s].pc = "tokensave"
              /\ req'[s] # req[s] =>
                  /\ users'[req[s].caller].resetToken \notin ResetTokens
                  /\ users'[req[s].caller].resetToken # users[req[s].caller].resetToken
                  /\ \A u \in DOMAIN users' :
                        \/ users[req[s].caller].resetToken = NoToken
                        \/ users'[u].resetToken # users[req[s].caller].resetToken
    /\ \A u \in DOMAIN users :
          users'[u].password # users[u].password =>
              \E s \in Slots :
                  /\ req[s].kind = "postResetPassword" /\ req[s].pc = "pwsave"
                  /\ req[s].caller = u /\ req'[s].status = 200

\* C30: POST /api/users/reset-password goes through only with a token that is some
\* user's stored resetToken and was generated less than one hour before, and is
\* answered 400 otherwise; the save of a reset clears the stored token, so no user
\* holds it afterwards and a later request with it finds nobody; every forgot-password
\* request stores a new token over the user's previous one, which no user holds from
\* then on; a password changes only in the save of such a reset
C30_ResetTokenSingleUse == []C30_State /\ [][C30_Step]_vars

\* C30 witness: two forgot-password requests of one user, a reset with the second
\* token that changed the password, and a second reset with the same token, less than
\* an hour after it was generated, answered 400
C30_Witness ==
    \E s \in Slots, u \in DOMAIN users :
        /\ req[s].kind = "postResetPassword" /\ req[s].pc = "done" /\ req[s].status = 400
        /\ Len(issued) = 2
        /\ req[s].token = ResetToken(2)
        /\ req[s].at - issued[2] < Hour
        /\ users[u].password = Hash("pw2")
        /\ \A v \in DOMAIN users :
              /\ users[v].resetToken = NoToken
              /\ v # u => users[v].password = Hash(Password)

====
